---------------------------- MODULE Spec2Model ----------------------------
(***************************************************************************)
(* A model of the BHS deployment scripts: the layered configuration       *)
(* (Config), the command runner (SubprocessAction), the module locator    *)
(* and installer (LocalModuleManager) and the three entry points          *)
(* (inserv.py, inwebapp.py, inrest.py).                                    *)
(*                                                                         *)
(* Strings of the program are kept as strings; where the program parses   *)
(* or tests a string (optionxform, endswith, startswith, interpolation)    *)
(* the model does the same on the finite alphabet of strings it uses.      *)
(***************************************************************************)
EXTENDS Integers, Sequences, FiniteSets, TLC

VARIABLES
    flavor,     \* which entry point runs: "serv", "webapp" or "rest"
    docs,       \* the configuration documents on disk, by role
    config,     \* the Config object under construction / constructed
    subproc,    \* a SubprocessAction object: its component name and error field
    exec_last,  \* the last call of execute on it and what came of it
    exec_calls, \* how many calls of execute were made on it
    manager,    \* a LocalModuleManager object
    fs,         \* the files and directories on disk, by path
    mod_last,   \* the last call on the manager and what came of it
    mod_calls,  \* how many calls were made on the manager
    cli,        \* the command line: sys.argv[1:], the answers typed in
                \* interactive mode, what is at the config-file path
    cmdline,    \* the CommandlineConfig object
    pc,         \* where the entry point stands
    ip,         \* the next step of the install or uninstall sequence
    run,        \* how the run ended: the exception, what stderr got
    trace,      \* the steps of the sequence entered so far, in order
    issued,     \* the external commands run so far, in order
    log_returned, \* what the calls of get_path_service_log returned, in order
    unit_last,  \* the last call of SystemdServiceCreator.create and what came of it
    got         \* the calls made on one object one after the other, and what came of each

cfgVars == <<flavor, docs, config>>
execVars == <<subproc, exec_last, exec_calls>>
modVars == <<manager, fs, mod_last, mod_calls>>
runVars == <<cli, cmdline, pc, ip, run, trace, issued>>
callVars == <<log_returned, unit_last, got>>

-----------------------------------------------------------------------------
(* Bounds of the model                                                     *)

\* how many options each of the earlier documents (credentials, common) defines
MaxEarlyDefs == 1
\* how many of the required options the service-specific document gets wrong
MaxMissing == 2
\* how many commands one SubprocessAction object is asked to execute
MaxCalls == 3
\* how many lookup paths the configuration lists
MaxPaths == 2
\* how many calls one LocalModuleManager object gets
MaxModuleCalls == 2
\* how many optional parameters follow the config-file argument
MaxArgs == 3
\* in how many places the machine of a run differs from a healthy one
MaxFaults == 1

-----------------------------------------------------------------------------
(* Config: constants of the classes                                        *)

Flavors == {"serv", "webapp", "rest"}

SECTION_SERVICE == "SERVICE"
SECTION_GENERAL == "GENERAL"
SECTION_PATH == "PATH"
SECTION_MODULES == "MODULES"
SECTION_DATABASE == "DATABASE"

OPTION_NAME == "name"
OPTION_VENV == "service-venv"
OPTION_MAIN_MODULE == "main"
OPTION_SERVICE_INI == "service-ini"
OPTION_HOST == "host"
OPTION_SHORT_NAME == "short-name"

\* inserv.Config.REQUIRED_OPTIONS, WebAppConfig.REQUIRED_OPTIONS and
\* inrest.Config.REQUIRED_OPTIONS, in the order the lists give
REQUIRED_OPTIONS(f) ==
    IF f = "serv"
    THEN << <<SECTION_SERVICE, OPTION_NAME>>,
            <<SECTION_GENERAL, OPTION_SHORT_NAME>>,
            <<SECTION_PATH, OPTION_VENV>>,
            <<SECTION_PATH, OPTION_SERVICE_INI>>,
            <<SECTION_MODULES, OPTION_MAIN_MODULE>>,
            <<SECTION_DATABASE, OPTION_HOST>> >>
    ELSE << <<SECTION_PATH, OPTION_VENV>> >>

\* the documents a flavor's Config reads, in the order of its read([...]) call
DocList(f) ==
    IF f = "serv" THEN <<"credentials", "common", "config">>
    ELSE <<"credentials", "config">>

Range(s) == {s[i] : i \in DOMAIN s}

-----------------------------------------------------------------------------
(* The strings of the documents                                            *)

\* an option written with a capital, to tell case-folding from case-preserving
OPTION_VENV_CAPITAL == "Service-venv"

\* str.lower() on the option names of the model
Lower(o) == IF o = OPTION_VENV_CAPITAL THEN OPTION_VENV ELSE o

\* ConfigParser.optionxform: the default folds to lower case; _inscommon.Config
\* replaces it by str; inserv.Config and inrest.Config keep the default
optionxform(f, o) == IF f = "webapp" THEN o ELSE Lower(o)

\* the value each document writes, so that a value tells its document
Literal(d) ==
    CASE d = "credentials" -> "c"
      [] d = "common" -> "m"
      [] OTHER -> "s"

\* a value with a reference in ExtendedInterpolation syntax
RefVenv == "${PATH:service-venv}"

\* the (section, option) a reference names; values without "$" are not in it
RefTarget(v) == IF v = RefVenv THEN <<SECTION_PATH, OPTION_VENV>> ELSE <<>>

HasReference(v) == v = RefVenv

\* values with a "$" that starts no reference: "$$" is the escape of "$",
\* a "$" followed by anything but "$" or "{" is a syntax error
EscapedDollar == "pa$$word"

LoneDollar == "pa$word"

NoOptions == [k \in {} |-> ""]

-----------------------------------------------------------------------------
(* ConfigParser as Config uses it                                          *)

\* the key an option of a document is stored under
XKey(f, k) == <<k[1], optionxform(f, k[2])>>

XKeys(f, doc) == {XKey(f, k) : k \in DOMAIN doc.opts}

\* strict parsing: two options of one section of one file with the same
\* transformed name raise DuplicateOptionError
HasDuplicate(f, doc) ==
    \E k1, k2 \in DOMAIN doc.opts : k1 # k2 /\ XKey(f, k1) = XKey(f, k2)

\* the value a document gives a stored key
DocValue(f, doc, kk) ==
    doc.opts[CHOOSE k \in DOMAIN doc.opts : XKey(f, k) = kk]

\* ReadDoc with the override turned round: a stored option is kept
ReadDocKeepFirst(f, store, doc) ==
    IF ~doc.exists THEN store
    ELSE [kk \in (DOMAIN store) \cup XKeys(f, doc) |->
            IF kk \in DOMAIN store THEN store[kk] ELSE DocValue(f, doc, kk)]

\* one file of ConfigParser.read: a file that cannot be opened is skipped,
\* every option of the file replaces the stored one, the others stay
ReadDoc(f, store, doc) ==
    IF ~doc.exists THEN store
    ELSE [kk \in (DOMAIN store) \cup XKeys(f, doc) |->
            IF kk \in XKeys(f, doc) THEN DocValue(f, doc, kk) ELSE store[kk]]

\* ConfigParser.read(filenames) from file i on: the files in list order
RECURSIVE ReadFrom(_, _, _, _)
ReadFrom(f, store, names, i) ==
    IF i > Len(names) THEN [exc |-> "none", store |-> store]
    ELSE IF docs[names[i]].exists /\ HasDuplicate(f, docs[names[i]])
         THEN [exc |-> "DuplicateOptionError", store |-> store]
         ELSE ReadFrom(f, ReadDoc(f, store, docs[names[i]]), names, i + 1)

read(f, names) == ReadFrom(f, NoOptions, names, 1)

has_section(store, s) == \E kk \in DOMAIN store : kk[1] = s

has_option(f, store, s, o) == <<s, optionxform(f, o)>> \in DOMAIN store

MAX_INTERPOLATION_DEPTH == 10

\* ExtendedInterpolation.before_get: a value without "$" is itself; a
\* reference is replaced by the referred option's value, itself interpolated
RECURSIVE Interpolate(_, _, _, _)
Interpolate(f, store, v, depth) ==
    IF v = EscapedDollar THEN [exc |-> "none", val |-> LoneDollar]
    ELSE IF v = LoneDollar THEN [exc |-> "InterpolationSyntaxError", val |-> ""]
    ELSE IF ~HasReference(v) THEN [exc |-> "none", val |-> v]
    ELSE IF depth > MAX_INTERPOLATION_DEPTH
         THEN [exc |-> "InterpolationDepthError", val |-> ""]
         ELSE LET t == XKey(f, RefTarget(v))
              IN  IF t \notin DOMAIN store
                  THEN [exc |-> "InterpolationMissingOptionError", val |-> ""]
                  ELSE Interpolate(f, store, store[t], depth + 1)

\* ConfigParser.get(section, option) without fallback
Get(f, store, s, o) ==
    IF ~has_section(store, s) THEN [exc |-> "NoSectionError", val |-> ""]
    ELSE IF ~has_option(f, store, s, o) THEN [exc |-> "NoOptionError", val |-> ""]
    ELSE Interpolate(f, store, store[<<s, optionxform(f, o)>>], 1)

\* ConfigParser.get(section, option, fallback=fb): the fallback stands in for
\* a missing section or option only
GetFallback(f, store, s, o, fb) ==
    IF ~has_option(f, store, s, o) THEN [exc |-> "none", val |-> fb]
    ELSE Get(f, store, s, o)

\* Python's "not val" on a string
Falsy(v) == v = ""

\* Config._verfy_config from required option i on: get raises through, an
\* empty value is collected, and the collected list is raised at the end
RECURSIVE VerifyFrom(_, _, _, _, _)
VerifyFrom(f, store, required, i, violations) ==
    IF i > Len(required)
    THEN IF Len(violations) > 0
         THEN [exc |-> "InstallationException", violations |-> violations]
         ELSE [exc |-> "none", violations |-> violations]
    ELSE LET g == Get(f, store, required[i][1], required[i][2])
         IN  IF g.exc # "none" THEN [exc |-> g.exc, violations |-> << >>]
             ELSE VerifyFrom(f, store, required, i + 1,
                     IF Falsy(g.val) THEN Append(violations, required[i])
                     ELSE violations)

verfy_config(f, store, required) == VerifyFrom(f, store, required, 1, << >>)

-----------------------------------------------------------------------------
(* Config.__init__ of the three flavors                                    *)

Raised(e, msg, store) ==
    [phase |-> "raised", exc |-> e, component |-> IF e = "InstallationException" THEN "CONFIG" ELSE "",
     violations |-> msg, store |-> store, was_read |-> FALSE]

\* the part every constructor ends with: read the documents, then verify
ReadAndVerify(f) ==
    LET r == read(f, DocList(f))
        v == verfy_config(f, r.store, REQUIRED_OPTIONS(f))
    IN  IF r.exc # "none"
        THEN Raised(r.exc, << >>, r.store)
        ELSE [phase |-> IF v.exc = "none" THEN "built" ELSE "raised",
              exc |-> v.exc,
              component |-> IF v.exc = "InstallationException" THEN "CONFIG" ELSE "",
              violations |-> v.violations, store |-> r.store, was_read |-> TRUE]

\* inserv.Config.__init__
ServConfigInit ==
    /\ flavor = "serv"
    /\ config.phase = "new"
    /\ config' =
         IF ~docs["credentials"].exists
         THEN Raised("InstallationException", << >>, NoOptions)
         ELSE IF ~docs["common"].exists
         THEN Raised("InstallationException", << >>, NoOptions)
         ELSE ReadAndVerify(flavor)
    /\ UNCHANGED <<flavor, docs>>

\* WebAppConfig.__init__: _inscommon.Config.__init__, then _verfy_config
WebAppConfigInit ==
    /\ flavor = "webapp"
    /\ config.phase = "new"
    /\ config' =
         IF ~docs["credentials"].exists
         THEN Raised("InstallationException", << >>, NoOptions)
         ELSE ReadAndVerify(flavor)
    /\ UNCHANGED <<flavor, docs>>

\* inrest.Config.__init__
RestConfigInit ==
    /\ flavor = "rest"
    /\ config.phase = "new"
    /\ config' =
         IF ~docs["credentials"].exists
         THEN Raised("InstallationException", << >>, NoOptions)
         ELSE ReadAndVerify(flavor)
    /\ UNCHANGED <<flavor, docs>>

-----------------------------------------------------------------------------
(* The documents the configuration is built from                           *)

RequiredKeys == Range(REQUIRED_OPTIONS("serv"))

CapitalKeys == {<<SECTION_PATH, OPTION_VENV_CAPITAL>>}

NoFile == [exists |-> FALSE, opts |-> NoOptions]

\* the options the earlier documents (credentials, common) may define
EarlyKeys ==
    {<<SECTION_PATH, OPTION_VENV>>, <<SECTION_PATH, OPTION_VENV_CAPITAL>>,
     <<SECTION_GENERAL, OPTION_SHORT_NAME>>}

\* credentials and common: no file, or a file defining a few options
EarlyDocs(d) ==
    {NoFile} \cup
    {[exists |-> TRUE, opts |-> [k \in K |-> Literal(d)]] :
        K \in {S \in SUBSET EarlyKeys : Cardinality(S) <= MaxEarlyDefs}}

Absent == "<absent>"

\* the service-specific document: every required option defined, except for
\* a few that are left out, left empty or defined by a reference
Deviate(dev, extra) ==
    [k \in ((RequiredKeys \ {d \in DOMAIN dev : dev[d] = Absent}) \cup extra) |->
        IF k \in DOMAIN dev THEN dev[k] ELSE Literal("config")]

ConfigDocs ==
    {[exists |-> TRUE, opts |-> Deviate(dev, extra)] :
        dev \in UNION {[D -> {Absent, "", RefVenv}] :
                        D \in {S \in SUBSET RequiredKeys : Cardinality(S) <= MaxMissing}},
        extra \in SUBSET CapitalKeys}

NewConfig ==
    [phase |-> "new", exc |-> "none", component |-> "", violations |-> << >>,
     store |-> NoOptions, was_read |-> FALSE]

-----------------------------------------------------------------------------
(* SubprocessAction                                                        *)

\* the commands, exit codes and captured streams of the model
Commands == {<<"sudo", "systemctl", "stop">>, <<"sudo", "cp">>, <<"chmod">>}
ReturnCodes == {0, 1, 2}
Streams == {"", "text"}
Components == {"COMMAND", "SYSTEMCTL", "MODULE"}

CompletedProcess == [returncode : ReturnCodes, stdout : Streams, stderr : Streams]

\* a command that succeeds silently and one that fails with a message
Succeeded == [returncode |-> 0, stdout |-> "", stderr |-> ""]
Failed == [returncode |-> 1, stdout |-> "", stderr |-> "text"]
Outcomes == {Succeeded, Failed}

\* the text execute builds on failure: the command, the return code and the
\* two streams, an empty stream shown as N/A
ErrorDetail(command, res) ==
    [command |-> command,
     returncode |-> res.returncode,
     stdout |-> IF res.stdout # "" THEN res.stdout ELSE "N/A",
     stderr |-> IF res.stderr # "" THEN res.stderr ELSE "N/A"]

NoError == [command |-> << >>, returncode |-> 0, stdout |-> "", stderr |-> ""]

NoException == [type |-> "none", component |-> "", message |-> NoError]

\* InstallationComponent.raise_exception
raise_exception(component, message) ==
    [type |-> "InstallationException", component |-> component, message |-> message]

\* execute with the must_succeed flag ignored: a failure only warns
executeNeverRaises(self, command, must_succeed, res) ==
    IF res.returncode = 0
    THEN [self |-> self, raised |-> NoException,
          log |-> [level |-> "debug", message |-> NoError]]
    ELSE [self |-> [self EXCEPT !.error = ErrorDetail(command, res)],
          raised |-> NoException,
          log |-> [level |-> "warning", message |-> ErrorDetail(command, res)]]

\* execute that forgets the last failure when a command succeeds
executeClearsError(self, command, must_succeed, res) ==
    IF res.returncode = 0
    THEN [self |-> [self EXCEPT !.error = NoError], raised |-> NoException,
          log |-> [level |-> "debug", message |-> NoError]]
    ELSE LET error == ErrorDetail(command, res)
         IN  IF must_succeed
             THEN [self |-> [self EXCEPT !.error = error],
                   raised |-> raise_exception(self.component, error),
                   log |-> [level |-> "none", message |-> NoError]]
             ELSE [self |-> [self EXCEPT !.error = error],
                   raised |-> NoException,
                   log |-> [level |-> "warning", message |-> error]]

\* SubprocessAction.execute, given what subprocess.run returned: the object
\* after the call, the exception raised (if any) and the line logged
execute(self, command, must_succeed, res) ==
    IF res.returncode = 0
    THEN [self |-> self, raised |-> NoException,
          log |-> [level |-> "debug", message |-> NoError]]
    ELSE LET error == ErrorDetail(command, res)
         IN  IF must_succeed
             THEN [self |-> [self EXCEPT !.error = error],
                   raised |-> raise_exception(self.component, error),
                   log |-> [level |-> "none", message |-> NoError]]
             ELSE [self |-> [self EXCEPT !.error = error],
                   raised |-> NoException,
                   log |-> [level |-> "warning", message |-> error]]

NoCall ==
    [made |-> FALSE, command |-> << >>, must_succeed |-> FALSE,
     res |-> [returncode |-> 0, stdout |-> "", stderr |-> ""],
     raised |-> NoException, log |-> [level |-> "none", message |-> NoError]]

\* one call of execute on the object; a raised exception ends its use
Execute ==
    /\ exec_calls < MaxCalls
    /\ exec_last.raised.type = "none"
    /\ \E command \in Commands, must_succeed \in BOOLEAN, res \in CompletedProcess :
         LET r == execute(subproc, command, must_succeed, res)
         IN  /\ subproc' = r.self
             /\ exec_last' = [made |-> TRUE, command |-> command,
                              must_succeed |-> must_succeed, res |-> res,
                              raised |-> r.raised, log |-> r.log]
    /\ exec_calls' = exec_calls + 1

-----------------------------------------------------------------------------
(* Files and paths                                                         *)

\* A file name is the sequence of its parts, the extension last; a directory
\* is the sequence of its components; a path is a directory and a file name.
join(dir, file) == [dir |-> dir, file |-> file]

dirname(dir) == SubSeq(dir, 1, Len(dir) - 1)

\* str.endswith on a file name
endswith(name, suffix) == Len(name) > 0 /\ name[Len(name)] = suffix

\* str.startswith on a line, itself the sequence of its parts
startswith(line, prefix) == Len(line) > 0 /\ line[1] = prefix

Nothing == [kind |-> "none", lines |-> << >>, executable |-> FALSE]
Directory == [kind |-> "dir", lines |-> << >>, executable |-> FALSE]
RegularFile(lines) == [kind |-> "file", lines |-> lines, executable |-> FALSE]

\* what is at a path
Lookup(files, path) == IF path \in DOMAIN files THEN files[path] ELSE Nothing

\* os.path.exists(p) and os.path.isfile(p)
isfile(files, path) == Lookup(files, path).kind = "file"

exists(files, path) == Lookup(files, path).kind # "none"

\* the files after path is written (or created) with entry
WriteFile(files, path, entry) ==
    [q \in (DOMAIN files) \cup {path} |-> IF q = path THEN entry ELSE files[q]]

-----------------------------------------------------------------------------
(* LocalModuleManager                                                      *)

\* LocalModuleManager.__init__
NewManager(lookup_paths, venv_path) ==
    [component |-> "MODULE",
     error |-> NoError,
     lookup_paths |-> lookup_paths,
     modules_target_path |-> venv_path \o <<"lib", "python3.7", "site-packages">>,
     venv_path |-> venv_path,
     base_dir |-> dirname(venv_path),
     main_module_target_path |-> join(<< >>, << >>)]

\* LocalModuleManager._module_file
module_file(module) ==
    IF endswith(module, ".py") \/ endswith(module, ".wsgi")
    THEN module
    ELSE module \o <<".py">>

\* the candidate paths that are regular files, in lookup order, from path i on
RECURSIVE Located(_, _, _, _)
Located(files, lookup_paths, file, i) ==
    IF i > Len(lookup_paths) THEN << >>
    ELSE LET p == join(lookup_paths[i], file)
         IN  (IF exists(files, p) /\ isfile(files, p) THEN <<p>> ELSE << >>)
                \o Located(files, lookup_paths, file, i + 1)

ModuleException(kind, named) ==
    [type |-> "InstallationException", component |-> "MODULE",
     message |-> [kind |-> kind, named |-> named]]

NoPath == join(<< >>, << >>)

\* _find_module that takes the first of several matches
find_moduleFirstMatch(self, files, module, is_regular_file) ==
    LET file == IF ~is_regular_file THEN module_file(module) ELSE module
        module_path == Located(files, self.lookup_paths, file, 1)
    IN  IF Len(module_path) = 0
        THEN [raised |-> ModuleException("not located", self.lookup_paths),
              ret |-> NoPath]
        ELSE [raised |-> NoException, ret |-> module_path[1]]

\* LocalModuleManager._find_module: the exception raised (if any) and the
\* path returned
find_module(self, files, module, is_regular_file) ==
    LET file == IF ~is_regular_file THEN module_file(module) ELSE module
        module_path == Located(files, self.lookup_paths, file, 1)
    IN  IF Len(module_path) > 1
        THEN [raised |-> ModuleException("multiple locations", module_path),
              ret |-> NoPath]
        ELSE IF Len(module_path) = 0
        THEN [raised |-> ModuleException("not located", self.lookup_paths),
              ret |-> NoPath]
        ELSE [raised |-> NoException, ret |-> module_path[1]]

\* the first line of a file as readline() gives it, and the lines after it
readline(entry) == IF Len(entry.lines) > 0 THEN Head(entry.lines) ELSE << >>
readlines(entry) == IF Len(entry.lines) > 0 THEN Tail(entry.lines) ELSE << >>

\* the interpreter directive install_main_module writes
NewShebang(venv_path) == <<"#!", join(venv_path \o <<"bin">>, <<"python3">>)>>

\* LocalModuleManager.install_main_module, given what chmod returned: the
\* target is opened for writing (created or truncated) in the same with
\* statement as the origin, before the first line is looked at
install_main_module(self, files, main_module, res) ==
    LET found == find_module(self, files, main_module, FALSE)
        target == join(self.base_dir, module_file(main_module))
        self1 == [self EXCEPT !.main_module_target_path = target]
        origin == Lookup(files, found.ret)
        \* open(target, 'w') truncates an existing file and keeps its mode
        mode == Lookup(files, target).executable
        opened == WriteFile(files, target,
                      [RegularFile(<< >>) EXCEPT !.executable = mode])
        shebang == readline(origin)
        written == WriteFile(files, target,
                      [RegularFile(<<NewShebang(self.venv_path)>> \o readlines(origin))
                          EXCEPT !.executable = mode])
        chmod == execute(self1, <<"chmod", "-v", "u+x">>, FALSE, res)
    IN  IF found.raised.type # "none"
        THEN [self |-> self, files |-> files, raised |-> found.raised, ret |-> NoPath]
        ELSE IF Lookup(files, target).kind = "dir"
        THEN [self |-> self1, files |-> files,
              raised |-> [type |-> "IsADirectoryError", component |-> "",
                          message |-> [kind |-> "open", named |-> <<target>>]],
              ret |-> NoPath]
        ELSE IF ~startswith(shebang, "#!")
        THEN [self |-> self1, files |-> opened,
              raised |-> ModuleException("no shebang", <<found.ret>>),
              ret |-> NoPath]
        ELSE [self |-> chmod.self,
              files |-> IF res.returncode = 0
                        THEN [written EXCEPT ![target].executable = TRUE]
                        ELSE written,
              raised |-> NoException, ret |-> target]

NoModuleCall ==
    [op |-> "none", module |-> << >>, is_regular_file |-> FALSE,
     raised |-> NoException, ret |-> NoPath,
     target |-> NoPath, target_before |-> Nothing]

\* the module names the configuration may list
ModuleNames == {<<"app">>, <<"app", ".py">>, <<"site", ".wsgi">>}

\* a call of _find_module
FindModule ==
    /\ mod_calls < MaxModuleCalls
    /\ mod_last.raised.type = "none"
    /\ \E module \in ModuleNames, is_regular_file \in BOOLEAN :
         LET r == find_module(manager, fs, module, is_regular_file)
         IN  mod_last' = [op |-> "_find_module", module |-> module,
                          is_regular_file |-> is_regular_file,
                          raised |-> r.raised, ret |-> r.ret,
                          target |-> NoPath, target_before |-> Nothing]
    /\ mod_calls' = mod_calls + 1
    /\ UNCHANGED <<manager, fs>>

\* a call of install_main_module
InstallMainModule ==
    /\ mod_calls < MaxModuleCalls
    /\ mod_last.raised.type = "none"
    /\ \E module \in ModuleNames, res \in Outcomes :
         LET r == install_main_module(manager, fs, module, res)
             target == join(manager.base_dir, module_file(module))
         IN  /\ manager' = r.self
             /\ fs' = r.files
             /\ mod_last' = [op |-> "install_main_module", module |-> module,
                             is_regular_file |-> FALSE,
                             raised |-> r.raised, ret |-> r.ret,
                             target |-> target,
                             target_before |-> Lookup(fs, target)]
    /\ mod_calls' = mod_calls + 1

\* the directories the lookup paths name, and the venv of the model
LookupDirs == {<<"..">>, <<"..", "lib">>, <<".">>}
VenvPath == <<"opt", "bhs", "venv">>

ShebangLine == <<"#!", "/usr/bin/python3">>
CodeLine == <<"import", "os">>

\* what may be at a candidate path: nothing, a directory, or a file that
\* starts with an interpreter directive, with code, or is empty
SourceEntries ==
    {Nothing, Directory, RegularFile(<<ShebangLine, CodeLine>>),
     RegularFile(<<CodeLine, CodeLine>>), RegularFile(<< >>)}

\* what may be at the target before the installation
TargetEntries == {Nothing, RegularFile(<<ShebangLine, CodeLine, CodeLine>>)}

LookupPathLists == UNION {[1..n -> LookupDirs] : n \in 1..MaxPaths}

AppPy == <<"app", ".py">>

-----------------------------------------------------------------------------
(* CommandlineConfig                                                       *)

DBTEST == "--db:test"
UNINSTALL == {"--uninstall", "-u"}
START == "--start"
UPDATE == "--update-only"

NewCommandline ==
    [config_file |-> "", dbtest_mode |-> FALSE, install |-> TRUE,
     start_immediately |-> FALSE, update_only |-> FALSE]

CommandlineException(kind, arg) ==
    [type |-> "InstallationException", component |-> "COMMANDLINE CONFIG",
     message |-> [kind |-> kind, named |-> <<arg>>]]

\* the loop over sys.argv[2:], from argument i on; inserv.py has its own
\* CommandlineConfig, which knows no UPDATE; inwebapp.py uses _inscommon's
RECURSIVE ParseArgs(_, _, _, _)
ParseArgs(f, args, i, self) ==
    IF i > Len(args) THEN [self |-> self, raised |-> NoException]
    ELSE IF args[i] = DBTEST
         THEN ParseArgs(f, args, i + 1, [self EXCEPT !.dbtest_mode = TRUE])
    ELSE IF args[i] \in UNINSTALL
         THEN ParseArgs(f, args, i + 1, [self EXCEPT !.install = FALSE])
    ELSE IF args[i] = START
         THEN ParseArgs(f, args, i + 1, [self EXCEPT !.start_immediately = TRUE])
    ELSE IF f # "serv" /\ args[i] = UPDATE
         THEN ParseArgs(f, args, i + 1, [self EXCEPT !.update_only = TRUE])
    ELSE [self |-> self, raised |-> CommandlineException("not recognized", args[i])]

\* CheckFile without the test for uninstall together with start
CheckFileNoContradiction(c, self) ==
    LET guessed == c.given = "missing"
        at == IF guessed THEN c.guess ELSE c.given
        self1 == IF guessed
                 THEN [self EXCEPT !.config_file = "./install/" \o self.config_file \o ".install.ini"]
                 ELSE self
    IN  IF guessed /\ c.guess = "missing"
        THEN [self |-> self1, raised |-> CommandlineException("invalid location", self1.config_file)]
        ELSE IF at = "dir"
        THEN [self |-> self1, raised |-> CommandlineException("not a file", self1.config_file)]
        ELSE IF at = "unreadable"
        THEN [self |-> self1, raised |-> CommandlineException("permission", self1.config_file)]
        ELSE [self |-> self1, raised |-> NoException]

\* the checks of the config file after the flags are read; c.given is what is
\* at the path as typed, c.guess what is at the guessed path
CheckFile(c, self) ==
    LET guessed == c.given = "missing"
        at == IF guessed THEN c.guess ELSE c.given
        self1 == IF guessed
                 THEN [self EXCEPT !.config_file = "./install/" \o self.config_file \o ".install.ini"]
                 ELSE self
    IN  IF guessed /\ c.guess = "missing"
        THEN [self |-> self1, raised |-> CommandlineException("invalid location", self1.config_file)]
        ELSE IF at = "dir"
        THEN [self |-> self1, raised |-> CommandlineException("not a file", self1.config_file)]
        ELSE IF ~self1.install /\ self1.start_immediately
        THEN [self |-> self1, raised |-> CommandlineException("contradicting", self1.config_file)]
        ELSE IF at = "unreadable"
        THEN [self |-> self1, raised |-> CommandlineException("permission", self1.config_file)]
        ELSE [self |-> self1, raised |-> NoException]

\* CommandlineConfig.__init__ on the command line c of flavor f
CommandlineConfig(f, c) ==
    LET interactive == Len(c.argv) < 1
        self0 == IF interactive
                 THEN [NewCommandline EXCEPT
                          !.config_file = c.answers.config_file,
                          !.dbtest_mode = c.answers.dbtest_mode,
                          !.update_only = (f # "serv" /\ c.answers.update_only),
                          !.start_immediately = (f # "serv" /\ c.answers.start_immediately)]
                 ELSE [NewCommandline EXCEPT !.config_file = c.argv[1]]
        parsed == ParseArgs(f, IF interactive THEN << >> ELSE Tail(c.argv), 1, self0)
    IN  IF parsed.raised.type # "none" THEN parsed
        ELSE CheckFile(c, parsed.self)

-----------------------------------------------------------------------------
(* The strings of a run and what the program's string operations make of   *)
(* them                                                                    *)

\* os.path components of the directory strings of the model
Dir(v) ==
    CASE v = "/tmp/v" -> <<"tmp", "v">>
      [] v = "/tmp" -> <<"tmp">>
      [] v = "/etc/bhs/foo" -> <<"etc", "bhs", "foo">>
      [] v = "/var/log/bhs" -> <<"var", "log", "bhs">>
      [] v = "/var/log/foo" -> <<"var", "log", "foo">>
      [] v = "../" -> <<"..">>
      [] v = "../lib" -> <<"..", "lib">>
      [] OTHER -> <<v>>

\* a file name string as the sequence of its parts, the extension last
Tokens(v) ==
    CASE v = "app.py" -> <<"app", ".py">>
      [] v = "site.wsgi" -> <<"site", ".wsgi">>
      [] v = "settings.json" -> <<"settings", ".json">>
      [] OTHER -> <<v>>

\* str.upper() on the short names of the model
Upper(v) == IF v = "foo" THEN "FOO" ELSE v

\* _module.replace(' ', '==') on the external modules of the model
PipName(v) == IF v = "requests 2.0" THEN "requests==2.0" ELSE v

\* value.split(",") with each element stripped, as directories
SplitPaths(v) ==
    IF v = "../, ../lib" THEN <<Dir("../"), Dir("../lib")>> ELSE <<Dir(v)>>

\* os.path.dirname on the log file names of the model
LogDirname(v) ==
    CASE v = "/var/log/foo/foo.log" -> "/var/log/foo"
      [] v = "${PATH:service-venv}/foo.log" -> RefVenv
      [] OTHER -> ""

\* a set as a sequence
RECURSIVE SetToSeq(_)
SetToSeq(S) ==
    IF S = {} THEN << >>
    ELSE LET x == CHOOSE x \in S : TRUE IN <<x>> \o SetToSeq(S \ {x})

\* ConfigParser.options(section): the stored option names of the section;
\* the documents of a run give a section at most one option besides main
\* and wsgi, so the order of the list is the order of the documents
options(store, s) == SetToSeq({kk[2] : kk \in {k \in DOMAIN store : k[1] = s}})

\* the elements of a sequence that are not in a set, in order
RECURSIVE Without(_, _)
Without(seq, S) ==
    IF seq = << >> THEN << >>
    ELSE (IF Head(seq) \in S THEN << >> ELSE <<Head(seq)>>) \o Without(Tail(seq), S)

\* ConfigParser.set on a parser whose section exists
SetOption(f, store, s, o, v) ==
    [kk \in (DOMAIN store) \cup {<<s, optionxform(f, o)>>} |->
        IF kk = <<s, optionxform(f, o)>> THEN v ELSE store[kk]]

-----------------------------------------------------------------------------
(* The documents of a run                                                  *)

\* a document from (section, option, value) triples
Doc(T) ==
    [exists |-> TRUE,
     opts |-> [k \in {<<t[1], t[2]>> : t \in T} |->
                 (CHOOSE t \in T : <<t[1], t[2]>> = k)[3]]]

\* the three options the end-to-end scenario configures
ServClaimed ==
    {<<"SERVICE", "name", "foo">>, <<"PATH", "service-venv", "/tmp/v">>,
     <<"MODULES", "main", "app">>}

\* every option inserv.Config requires
ServComplete ==
    ServClaimed \cup
    {<<"GENERAL", "short-name", "foo">>, <<"PATH", "service-ini", "/etc/bhs/foo">>,
     <<"DATABASE", "host", "dbhost">>}

\* with a local module and an external one besides
ServWithModules ==
    ServComplete \cup {<<"MODULES", "helper", "">>, <<"EXTERNALS", "requests 2.0", "">>}

WebAppMinimal == {<<"PATH", "service-venv", "/tmp/v">>}

WebAppComplete ==
    {<<"PATH", "service-venv", "/tmp/v">>, <<"PATH", "service-base", "/tmp">>,
     <<"PATH", "service-ini", "/etc/bhs/foo">>, <<"GENERAL", "short-name", "foo">>,
     <<"MODULES", "wsgi", "site.wsgi">>, <<"MODULES", "helper", "">>,
     <<"EXTERNALS", "requests 2.0", "">>, <<"FILES", "settings.json", "">>}

RestMinimal == {<<"PATH", "service-venv", "/tmp/v">>}

RestComplete ==
    {<<"PATH", "service-venv", "/tmp/v">>, <<"MODULES", "main", "app.py">>,
     <<"MODULES", "wsgi", "site.wsgi">>, <<"MODULES", "helper", "">>,
     <<"EXTERNALS", "requests 2.0", "">>, <<"REST", "port", "8080">>}

CredentialsOfFoo == {<<"FOO", "user", "u">>, <<"FOO", "password", "p">>}

CommonModules == {<<"COMMON-MODULES", "core", "">>, <<"COMMON-EXTERNALS", "numpy", "">>}

\* the service-specific documents a run of flavor f may be given
RunConfigs(f) ==
    CASE f = "serv" -> {Doc(ServClaimed), Doc(ServComplete), Doc(ServWithModules)}
      [] f = "webapp" -> {Doc(WebAppMinimal), Doc(WebAppComplete)}
      [] OTHER -> {Doc(RestMinimal), Doc(RestComplete)}

RunCredentials == {NoFile, Doc({}), Doc(CredentialsOfFoo)}

\* common.install.ini is read by inserv.py only
RunCommons(f) == IF f = "serv" THEN {NoFile, Doc(CommonModules)} ELSE {NoFile}

-----------------------------------------------------------------------------
(* The file system of a run                                                *)

\* a directory as a path
DirPath(dir) == join(dir, << >>)

\* dir is p's directory or one above it
Under(p, dir) == Len(p.dir) >= Len(dir) /\ SubSeq(p.dir, 1, Len(dir)) = dir

\* an .ini file: its options in the order they are written
Option(s, o, v) == [section |-> s, option |-> o, value |-> v]

\* rm -rd dir: the directory and everything under it is gone
RemoveTree(files, dir) == [q \in {p \in DOMAIN files : ~Under(p, dir)} |-> files[q]]

\* rm -fv path
RemoveFile(files, path) == [q \in (DOMAIN files) \ {path} |-> files[q]]

\* cp origin target: the target is what the origin is
CopyFile(files, origin, target) ==
    IF exists(files, origin) THEN WriteFile(files, target, Lookup(files, origin))
    ELSE files

\* chmod u+x path
MakeExecutable(files, path) ==
    IF isfile(files, path) THEN [files EXCEPT ![path].executable = TRUE] ELSE files

\* where the entry points look for things
OriginIniDir(f) ==
    IF f = "serv" THEN <<"..", "BHS_Services", "deployment", "config">>
    ELSE <<".", "config">>

LogFileDir(f) ==
    IF f = "serv" THEN <<"..", "BHS_Services", "deployment", "x_log">>
    ELSE <<"x_log">>

TemplateFile(f) ==
    CASE f = "serv" -> join(<<".">>, <<"$template", ".service">>)
      [] f = "webapp" -> join(<<".">>, <<"$template.mod-wsgi.apachectl", ".service">>)
      [] OTHER -> join(<<".">>, <<"$template.mod-wsgi", ".service">>)

StartupScript == join(<<"etc">>, <<"rc", ".local">>)

\* the content of the unit-file template and of the startup script
TemplateLines ==
    <<Option("Unit", "Description", "from template"),
      Option("Unit", "After", "network.target"),
      Option("Service", "ExecStart", "from template"),
      Option("Service", "Restart", "always")>>

ExitLine == <<"exit 0">>

StartupLines == <<<<"#!", "/bin/sh">>, ExitLine>>

\* a machine on which everything the run of flavor f looks for is in place
HealthyFiles(f) ==
    LET src == [p \in {join(<<"..">>, n) :
                        n \in {<<"app", ".py">>, <<"helper", ".py">>, <<"core", ".py">>,
                               <<"site", ".wsgi">>, <<"settings", ".json">>,
                               <<"manage", ".py">>}} |->
                  IF p.file = <<"app", ".py">>
                  THEN RegularFile(<<ShebangLine, CodeLine>>)
                  ELSE RegularFile(<<CodeLine>>)]
        env == (DirPath(LogFileDir(f)) :> Directory)
               @@ (TemplateFile(f) :> RegularFile(TemplateLines))
               @@ (join(OriginIniDir(f), <<"foo", ".ini">>) :>
                      RegularFile(<<Option("LOG", "logfile", "/var/log/foo/foo.log")>>))
               @@ (StartupScript :> RegularFile(StartupLines))
               @@ (join(Dir("/etc/bhs/foo"), <<"apachectl">>) :> RegularFile(<< >>))
    IN  src @@ env

\* what may be different on the machine: a path and what is there instead
Faults(f) ==
    {<<join(<<"..">>, <<"app", ".py">>), Nothing>>,
     <<join(<<"..">>, <<"app", ".py">>), RegularFile(<<CodeLine, CodeLine>>)>>,
     <<join(<<"..">>, <<"helper", ".py">>), Nothing>>,
     <<join(<<"..">>, <<"site", ".wsgi">>), Nothing>>,
     <<TemplateFile(f), Nothing>>,
     <<DirPath(LogFileDir(f)), Nothing>>,
     <<join(Dir("/tmp"), <<"app", ".py">>), RegularFile(<<ShebangLine, CodeLine, CodeLine>>)>>,
     <<join(<<"etc", "systemd", "system">>, <<"foo", ".service">>),
       RegularFile(<<Option("Unit", "Description", "installed before")>>)>>}
    \cup
    (IF f = "webapp"
     THEN {<<join(<<"..">>, <<"manage", ".py">>), Nothing>>,
           <<StartupScript, Nothing>>,
           <<join(Dir("/etc/bhs/foo"), <<"apachectl">>), Nothing>>}
     ELSE {})

\* the healthy machine with the faults of F
WithFaults(f, F) ==
    LET paths == {x[1] : x \in F}
        h == HealthyFiles(f)
    IN  [p \in (DOMAIN h) \cup paths |->
            IF p \in paths THEN (CHOOSE x \in F : x[1] = p)[2] ELSE h[p]]

\* the machines of the model: at most MaxFaults faults, no two at one path
RunFiles(f) ==
    {WithFaults(f, F) :
        F \in {G \in SUBSET Faults(f) :
                 /\ Cardinality(G) <= MaxFaults
                 /\ \A x, y \in G : x[1] = y[1] => x = y}}

-----------------------------------------------------------------------------
(* The getters of Config that the entry points use                         *)

\* an exception of ConfigParser.get, as the entry point sees it
ConfigError(exc, s, o) ==
    [type |-> exc, component |-> "", message |-> [kind |-> "get", named |-> <<s, o>>]]

ConfigException(kind, named) ==
    [type |-> "InstallationException", component |-> "CONFIG",
     message |-> [kind |-> kind, named |-> named]]

\* get_service_full_name: WebAppConfig and inrest.Config return a constant
get_service_full_name(f, store) ==
    CASE f = "serv" -> Get(f, store, SECTION_SERVICE, OPTION_NAME)
      [] f = "webapp" -> [exc |-> "none", val |-> "BHS-Info-WebApp"]
      [] OTHER -> [exc |-> "none", val |-> "BHS-Info-REST"]

get_service_short_name(f, store) == Get(f, store, SECTION_GENERAL, OPTION_SHORT_NAME)

get_path_venv(f, store) == Get(f, store, SECTION_PATH, OPTION_VENV)

get_path_base_dir(f, store) == Get(f, store, SECTION_PATH, "service-base")

get_path_service_ini(f, store) == Get(f, store, SECTION_PATH, OPTION_SERVICE_INI)

get_main_module(f, store) == Get(f, store, SECTION_MODULES, OPTION_MAIN_MODULE)

get_wsgi_file(f, store) == Get(f, store, SECTION_MODULES, "wsgi")

\* get_external_modules: inserv.Config puts the common ones first
get_external_modules(f, store) ==
    (IF f = "serv" /\ has_section(store, "COMMON-EXTERNALS")
     THEN options(store, "COMMON-EXTERNALS") ELSE << >>)
    \o (IF has_section(store, "EXTERNALS") THEN options(store, "EXTERNALS") ELSE << >>)

\* get_modules: the options of MODULES except main (and wsgi, where the
\* flavor has one), after the common modules in inserv.Config
get_modules(f, store) ==
    (IF f = "serv" /\ has_section(store, "COMMON-MODULES")
     THEN options(store, "COMMON-MODULES") ELSE << >>)
    \o (IF has_section(store, SECTION_MODULES)
        THEN Without(options(store, SECTION_MODULES),
                     IF f = "serv" THEN {OPTION_MAIN_MODULE}
                     ELSE {OPTION_MAIN_MODULE, "wsgi"})
        ELSE << >>)

\* WebAppConfig.get_files
get_files(store) ==
    IF has_section(store, "FILES")
    THEN [exc |-> "none", val |-> options(store, "FILES")]
    ELSE [exc |-> "NoSectionError", val |-> << >>]

get_modules_lookup_paths(f, store) ==
    IF has_option(f, store, SECTION_PATH, "module-path")
    THEN SplitPaths(Get(f, store, SECTION_PATH, "module-path").val)
    ELSE <<Dir("../")>>

\* get_path_origin_service_ini, given the short name
OriginIni(f, short_name) == join(OriginIniDir(f), <<short_name, ".ini">>)

\* the value of an option in the lines of an .ini file, "" when not there
IniValue(lines, s, o) ==
    IF \E i \in DOMAIN lines : lines[i].section = s /\ lines[i].option = o
    THEN lines[CHOOSE i \in DOMAIN lines : lines[i].section = s /\ lines[i].option = o].value
    ELSE ""

\* get_path_service_log: the configured value; otherwise the directory of
\* LOG/logfile of the service's own .ini, or /var/log/bhs, stored under
\* PATH/service-log before it is returned
get_path_service_log(f, store, files) ==
    IF has_option(f, store, SECTION_PATH, "service-log")
    THEN LET g == Get(f, store, SECTION_PATH, "service-log")
         IN  [exc |-> g.exc, val |-> g.val, store |-> store]
    ELSE LET n == get_service_short_name(f, store)
             ini == Lookup(files, OriginIni(f, n.val))
             logfile == IF ini.kind = "file" THEN IniValue(ini.lines, "LOG", "logfile") ELSE ""
             log_dir == IF logfile # "" THEN LogDirname(logfile) ELSE "/var/log/bhs"
         IN  IF n.exc # "none" THEN [exc |-> n.exc, val |-> "", store |-> store]
             ELSE [exc |-> "none", val |-> log_dir,
                   store |-> SetOption(f, store, SECTION_PATH, "service-log", log_dir)]

\* the lookup path strings of the model and manage.py under them
ManagePy(dir) == IF dir = Dir("../lib") THEN "../lib/manage.py" ELSE "../manage.py"

ManagePyPath(v) ==
    IF v = "../lib/manage.py" THEN join(Dir("../lib"), <<"manage", ".py">>)
    ELSE join(Dir("../"), <<"manage", ".py">>)

\* the loop that keeps the first manage.py it finds
RECURSIVE TryManagersFirst(_, _, _, _, _)
TryManagersFirst(f, store, files, pths, i) ==
    IF i > Len(pths) THEN store
    ELSE LET tryit == join(pths[i], <<"manage", ".py">>)
         IN  TryManagersFirst(f,
                 IF /\ exists(files, tryit) /\ isfile(files, tryit)
                    /\ ~has_option(f, store, SECTION_PATH, "django-manager")
                 THEN SetOption(f, store, SECTION_PATH, "django-manager", ManagePy(pths[i]))
                 ELSE store,
                 files, pths, i + 1)

\* the loop of get_path_origin_django_manager from lookup path i on: every
\* path that holds a manage.py is stored, a later one over an earlier one
RECURSIVE TryManagers(_, _, _, _, _)
TryManagers(f, store, files, pths, i) ==
    IF i > Len(pths) THEN store
    ELSE LET tryit == join(pths[i], <<"manage", ".py">>)
         IN  TryManagers(f,
                 IF exists(files, tryit) /\ isfile(files, tryit)
                 THEN SetOption(f, store, SECTION_PATH, "django-manager", ManagePy(pths[i]))
                 ELSE store,
                 files, pths, i + 1)

\* WebAppConfig.get_path_origin_django_manager
get_path_origin_django_manager(f, store, files) ==
    IF has_option(f, store, SECTION_PATH, "django-manager")
    THEN [raised |-> NoException, store |-> store,
          val |-> Get(f, store, SECTION_PATH, "django-manager").val]
    ELSE LET pths == get_modules_lookup_paths(f, store)
             set == TryManagers(f, store, files, pths, 1)
         IN  IF ~has_option(f, set, SECTION_PATH, "django-manager")
             THEN [raised |-> ConfigException("no django manager", pths),
                   store |-> set, val |-> ""]
             ELSE [raised |-> NoException, store |-> set,
                   val |-> Get(f, set, SECTION_PATH, "django-manager").val]

-----------------------------------------------------------------------------
(* The components at work in a run                                         *)
(*                                                                         *)
(* A step works on a record: the files, the commands issued so far, the    *)
(* exception raised (after which nothing more is done), the module         *)
(* manager, the stored configuration, and the exit codes the commands of   *)
(* the step are going to return, of which n have been used.                *)

\* what a command that exits with zero does to the files
Effect(files, argv, on) ==
    CASE "mkdir" \in Range(argv) -> WriteFile(files, on[1], Directory)
      [] "cp" \in Range(argv) -> CopyFile(files, on[1], on[2])
      [] "-rd" \in Range(argv) -> RemoveTree(files, on[1].dir)
      [] "rm" \in Range(argv) -> RemoveFile(files, on[1])
      [] "venv" \in Range(argv) -> WriteFile(RemoveTree(files, on[1].dir), on[1], Directory)
      [] "u+x" \in Range(argv) -> MakeExecutable(files, on[1])
      [] OTHER -> files

\* an exception ends the step: what follows a raise is skipped
Raise(st, exc) == [st EXCEPT !.raised = exc]

\* a component runs a command: the words of argv on the paths of on
Exec(st, component, argv, on, must_succeed) ==
    IF st.raised.type # "none" THEN st
    ELSE LET res == st.rcs[st.n + 1]
             r == execute([component |-> component, error |-> NoError],
                          [argv |-> argv, on |-> on], must_succeed, res)
         IN  [st EXCEPT
                !.n = @ + 1,
                !.issued = Append(@, [argv |-> argv, on |-> on,
                                      must_succeed |-> must_succeed,
                                      returncode |-> res.returncode]),
                !.raised = r.raised,
                !.files = IF res.returncode = 0 THEN Effect(@, argv, on) ELSE @]

\* ServiceControl
service_stop(st, name) ==
    Exec(st, "SYSTEMCTL", <<"sudo", "systemctl", "stop", name>>, << >>, FALSE)

service_disable(st, name) ==
    Exec(st, "SYSTEMCTL", <<"sudo", "systemctl", "disable", name>>, << >>, FALSE)

service_install(st, name) ==
    Exec(Exec(st, "SYSTEMCTL", <<"sudo", "systemctl", "daemon-reload">>, << >>, TRUE),
         "SYSTEMCTL", <<"sudo", "systemctl", "enable", name, ".service">>, << >>, TRUE)

service_start(st, name) ==
    Exec(st, "SYSTEMCTL", <<"sudo", "systemctl", "start", name>>, << >>, TRUE)

\* VenvManager
venv_create(st, venv) ==
    Exec(st, "VENV", <<"sudo", "python3", "-m", "venv", "--clear">>, <<DirPath(venv)>>, TRUE)

venv_install_module(st, venv, module) ==
    Exec(st, "VENV", <<"sudo", "pip3", "install", PipName(module)>>,
         <<join(venv \o <<"bin">>, <<"pip3">>)>>, TRUE)

get_python(venv) == join(venv \o <<"bin">>, <<"python">>)

\* the loop over the external modules, from module i on
RECURSIVE InstallExternals(_, _, _, _)
InstallExternals(st, venv, externals, i) ==
    IF i > Len(externals) \/ st.raised.type # "none" THEN st
    ELSE InstallExternals(venv_install_module(st, venv, externals[i]), venv, externals, i + 1)

\* install_module that names the copy by the module name as configured
install_moduleRawName(st, module) ==
    LET found == find_module(st.manager, st.files, Tokens(module), FALSE)
        target_path == join(st.manager.modules_target_path, Tokens(module))
    IN  IF st.raised.type # "none" THEN st
        ELSE IF found.raised.type # "none" THEN Raise(st, found.raised)
        ELSE Exec(Exec(st, "MODULE", <<"sudo", "mkdir", "-p">>,
                       <<DirPath(target_path.dir)>>, TRUE),
                  "MODULE", <<"sudo", "cp", "-u", "-r">>, <<found.ret, target_path>>, TRUE)

\* LocalModuleManager.install_module
install_module(st, module) ==
    LET found == find_module(st.manager, st.files, Tokens(module), FALSE)
        target_path == join(st.manager.modules_target_path, module_file(Tokens(module)))
    IN  IF st.raised.type # "none" THEN st
        ELSE IF found.raised.type # "none" THEN Raise(st, found.raised)
        ELSE Exec(Exec(st, "MODULE", <<"sudo", "mkdir", "-p">>,
                       <<DirPath(target_path.dir)>>, TRUE),
                  "MODULE", <<"sudo", "cp", "-u", "-r">>, <<found.ret, target_path>>, TRUE)

\* LocalModuleManager.install_file
install_file(st, file) ==
    LET found == find_module(st.manager, st.files, Tokens(file), TRUE)
        target_path == join(st.manager.base_dir, Tokens(file))
    IN  IF st.raised.type # "none" THEN st
        ELSE IF found.raised.type # "none" THEN Raise(st, found.raised)
        ELSE Exec(Exec(st, "MODULE", <<"sudo", "mkdir", "-p">>,
                       <<DirPath(target_path.dir)>>, TRUE),
                  "MODULE", <<"sudo", "cp", "-u", "-r">>, <<found.ret, target_path>>, TRUE)

\* the loops over the local modules and over the listed files
RECURSIVE InstallModules(_, _, _)
InstallModules(st, modules, i) ==
    IF i > Len(modules) \/ st.raised.type # "none" THEN st
    ELSE InstallModules(install_module(st, modules[i]), modules, i + 1)

RECURSIVE InstallFiles(_, _, _)
InstallFiles(st, files, i) ==
    IF i > Len(files) \/ st.raised.type # "none" THEN st
    ELSE InstallFiles(install_file(st, files[i]), files, i + 1)

\* install_main_module as a step: chmod is the one command it runs
main_module(st, module) ==
    LET r == install_main_module(st.manager, st.files, Tokens(module), st.rcs[st.n + 1])
        reached == r.raised.type = "none"
    IN  [st EXCEPT
           !.manager = r.self,
           !.files = r.files,
           !.raised = r.raised,
           !.n = IF reached THEN @ + 1 ELSE @,
           !.issued = IF reached
                      THEN Append(@, [argv |-> <<"chmod", "-v", "u+x">>, on |-> <<r.ret>>,
                                      must_succeed |-> FALSE,
                                      returncode |-> st.rcs[st.n + 1].returncode])
                      ELSE @]

\* remove_all that removes the virtual environment only
remove_allVenvOnly(st) ==
    Exec(st, "MODULE", <<"sudo", "rm", "-rd">>, <<DirPath(st.manager.venv_path)>>, FALSE)

\* remove_all whose command has to succeed
remove_allMustSucceed(st) ==
    Exec(st, "MODULE", <<"sudo", "rm", "-rd">>, <<DirPath(st.manager.base_dir)>>, TRUE)

remove_all(st) ==
    Exec(st, "MODULE", <<"sudo", "rm", "-rd">>, <<DirPath(st.manager.base_dir)>>, FALSE)

\* IniManager: inserv.py has its own, which copies with -u
copy_ini(st, f, target_dir, origin) ==
    Exec(Exec(st, "SERVICE-INI", <<"sudo", "mkdir", "-p">>, <<DirPath(target_dir)>>, TRUE),
         "SERVICE-INI",
         IF f = "serv" THEN <<"sudo", "cp", "-u", "-r">> ELSE <<"sudo", "cp", "-r">>,
         <<origin, join(target_dir, origin.file)>>, TRUE)

ini_remove(st, target_dir) ==
    Exec(st, "SERVICE-INI", <<"sudo", "rm", "-rd">>, <<DirPath(target_dir)>>, FALSE)


\* ConfigParser.set on the lines of an .ini: an option that is there gets
\* the value in place, a new one goes to the end of its section
SetLine(lines, s, o, v) ==
    IF \E i \in DOMAIN lines : lines[i].section = s /\ lines[i].option = o
    THEN [i \in DOMAIN lines |->
            IF lines[i].section = s /\ lines[i].option = o THEN Option(s, o, v) ELSE lines[i]]
    ELSE LET last == CHOOSE i \in DOMAIN lines :
                        /\ lines[i].section = s
                        /\ \A j \in DOMAIN lines : lines[j].section = s => j <= i
         IN  SubSeq(lines, 1, last) \o <<Option(s, o, v)>> \o SubSeq(lines, last + 1, Len(lines))

HasLineSection(lines, s) == \E i \in DOMAIN lines : lines[i].section = s

\* one of the three set calls of create: skipped for an empty argument,
\* NoSectionError when the template has no such section
SetSupplied(r, s, o, v, supplied) ==
    IF r.exc # "none" \/ ~supplied THEN r
    ELSE IF ~HasLineSection(r.lines, s) THEN [exc |-> "NoSectionError", lines |-> r.lines]
    ELSE [exc |-> "none", lines |-> SetLine(r.lines, s, o, v)]

\* create that sets the three fields whatever the arguments are
createAlwaysSets(template, exec_start, working_directory, service_descripton, supplied) ==
    SetSupplied(
        SetSupplied(
            SetSupplied([exc |-> "none", lines |-> template],
                        "Unit", "Description", service_descripton, TRUE),
            "Service", "ExecStart", exec_start, TRUE),
        "Service", "WorkingDirectory", working_directory, TRUE)

\* SystemdServiceCreator.create on the parser read from the template: the
\* lines to write, or the exception of a set
create(template, exec_start, working_directory, service_descripton, supplied) ==
    SetSupplied(
        SetSupplied(
            SetSupplied([exc |-> "none", lines |-> template],
                        "Unit", "Description", service_descripton, supplied[1]),
            "Service", "ExecStart", exec_start, supplied[2]),
        "Service", "WorkingDirectory", working_directory, supplied[3])

\* SystemdServiceCreator.__init__ reads the template: a file that is not
\* there reads as nothing
ReadTemplate(files, template_file) ==
    IF isfile(files, template_file) THEN Lookup(files, template_file).lines ELSE << >>

\* get_path_systemd
SystemdTarget(name) == join(<<"etc", "systemd", "system">>, <<name, ".service">>)

\* create as a step: the descriptor is written when no set raised
systemd_create(st, template_file, target_file, exec_start, working_directory, service_descripton, supplied) ==
    LET r == create(ReadTemplate(st.files, template_file), exec_start,
                    working_directory, service_descripton, supplied)
    IN  IF st.raised.type # "none" THEN st
        ELSE IF r.exc # "none"
        THEN Raise(st, [type |-> r.exc, component |-> "",
                        message |-> [kind |-> "set", named |-> <<target_file>>]])
        ELSE [st EXCEPT !.files = WriteFile(@, target_file, RegularFile(r.lines))]

\* remove with a delete command that has to succeed
systemd_removeMustSucceed(st, target_file) ==
    Exec(st, "SYSTEMD-INI", <<"sudo", "rm", "-fv">>, <<target_file>>, TRUE)

systemd_remove(st, target_file) ==
    Exec(st, "SYSTEMD-INI", <<"sudo", "rm", "-fv">>, <<target_file>>, FALSE)

\* get_database_db
get_database_db(f, store, test_mode) ==
    IF test_mode THEN GetFallback(f, store, SECTION_DATABASE, "db_test", "bhs_test")
    ELSE GetFallback(f, store, SECTION_DATABASE, "db", "bhs")

\* EnvIniCreator.create with its arguments as inserv.py computes them: the
\* host, the database, then user and password of the section named by the
\* upper-cased short name
envini_create(st, f, dbtest_mode) ==
    LET host == Get(f, st.store, SECTION_DATABASE, OPTION_HOST)
        db == get_database_db(f, st.store, dbtest_mode)
        short == get_service_short_name(f, st.store)
        sect == Upper(short.val)
        user == Get(f, st.store, sect, "user")
        password == Get(f, st.store, sect, "password")
        ini == get_path_service_ini(f, st.store)
        target_file == join(Dir(ini.val), <<"env", ".ini">>)
    IN  IF st.raised.type # "none" THEN st
        ELSE IF host.exc # "none" THEN Raise(st, ConfigError(host.exc, SECTION_DATABASE, OPTION_HOST))
        ELSE IF db.exc # "none" THEN Raise(st, ConfigError(db.exc, SECTION_DATABASE, "db"))
        ELSE IF short.exc # "none"
        THEN Raise(st, ConfigError(short.exc, SECTION_GENERAL, OPTION_SHORT_NAME))
        ELSE IF user.exc # "none" THEN Raise(st, ConfigError(user.exc, sect, "user"))
        ELSE IF password.exc # "none" THEN Raise(st, ConfigError(password.exc, sect, "password"))
        ELSE IF ini.exc # "none"
        THEN Raise(st, ConfigError(ini.exc, SECTION_PATH, OPTION_SERVICE_INI))
        ELSE [st EXCEPT !.files =
                 WriteFile(@, target_file,
                     RegularFile(<<Option("DATABASE", "db", db.val),
                                   Option("DATABASE", "user", user.val),
                                   Option("DATABASE", "password", password.val),
                                   Option("DATABASE", "host", host.val)>>))]

\* the service log directory of inserv.py: made when it is not there, then
\* opened to everybody; neither command has to succeed
service_log(st, f) ==
    LET g == get_path_service_log(f, st.store, st.files)
        service_log_dir == DirPath(Dir(g.val))
        st1 == [st EXCEPT !.store = g.store]
        made == IF ~exists(st.files, service_log_dir)
                THEN Exec(st1, "COMMAND", <<"mkdir", "-p">>, <<service_log_dir>>, FALSE)
                ELSE st1
    IN  IF st.raised.type # "none" THEN st
        ELSE IF g.exc # "none"
        THEN Raise(st, ConfigError(g.exc, SECTION_GENERAL, OPTION_SHORT_NAME))
        ELSE Exec(made, "COMMAND", <<"chmod", "ugo+rw">>, <<service_log_dir>>, FALSE)

\* ApacheController.stop
apache_stop(st, apache_ctrl) ==
    IF ~exists(st.files, apache_ctrl) THEN st
    ELSE Exec(st, "COMMAND", <<"sudo", "stop">>, <<apache_ctrl>>, FALSE)

\* StaticFilesManager.install
statics_install(st, venv_python, django_manager) ==
    Exec(st, "STATICFILES", <<"sudo", "collectstatic", "--noinput">>,
         <<venv_python, django_manager>>, TRUE)

\* ApacheModWsgiConfigurator.configure
configure(st, venv_python, django_mngr_path, working_dir, apache_config_dir_path) ==
    Exec(st, "APACHE-CONF", <<"sudo", "runmodwsgi", "--setup-only">>,
         <<venv_python, django_mngr_path, DirPath(working_dir),
           DirPath(apache_config_dir_path)>>, TRUE)

\* the line that starts Apache
StartupCommand(apachectl) == <<"sudo", apachectl, "start">>

\* str.strip() on a line: the white space at its two ends is dropped
RECURSIVE strip(_)
strip(line) ==
    IF line = << >> THEN line
    ELSE IF Head(line) = " " THEN strip(Tail(line))
    ELSE IF line[Len(line)] = " " THEN strip(SubSeq(line, 1, Len(line) - 1))
    ELSE line

\* the loop that takes the first line that is exit 0
ExitIndexFirst(content) ==
    IF \E i \in DOMAIN content : strip(content[i]) = ExitLine
    THEN (CHOOSE i \in DOMAIN content :
             /\ strip(content[i]) = ExitLine
             /\ \A j \in DOMAIN content : strip(content[j]) = ExitLine => i <= j) - 1
    ELSE -1

\* the index of the last line that is exit 0, counted from 0; -1 is None
ExitIndex(content) ==
    IF \E i \in DOMAIN content : strip(content[i]) = ExitLine
    THEN (CHOOSE i \in DOMAIN content :
             /\ strip(content[i]) = ExitLine
             /\ \A j \in DOMAIN content : strip(content[j]) = ExitLine => j <= i) - 1
    ELSE -1

\* the test for the command that compares the lines as they are written
WithStartupUnstripped(content, startup_command) ==
    IF \E i \in DOMAIN content : content[i] = startup_command
    THEN content
    ELSE LET exit_0_index == ExitIndex(content)
             insert_command_at == IF exit_0_index # -1 THEN exit_0_index ELSE Len(content)
         IN  SubSeq(content, 1, insert_command_at)
                \o << << >>, startup_command, << >> >>
                \o SubSeq(content, insert_command_at + 1, Len(content))

\* the startup script after setup_on_startup: as it was when a line is the
\* command, otherwise with an empty line, the command and an empty line put
\* in at the last exit 0, or at the end
WithStartup(content, startup_command) ==
    IF \E i \in DOMAIN content : strip(content[i]) = startup_command
    THEN content
    ELSE LET exit_0_index == ExitIndex(content)
             insert_command_at == IF exit_0_index # -1 THEN exit_0_index ELSE Len(content)
         IN  SubSeq(content, 1, insert_command_at)
                \o << << >>, startup_command, << >> >>
                \o SubSeq(content, insert_command_at + 1, Len(content))

\* ApacheModWsgiConfigurator.setup_on_startup: the script is opened for
\* reading first, and for writing only when no line is the command
setup_on_startup(st, apachectl) ==
    LET script == Lookup(st.files, StartupScript)
        content == WithStartup(script.lines, StartupCommand(apachectl))
    IN  IF st.raised.type # "none" THEN st
        ELSE IF script.kind # "file"
        THEN Raise(st, [type |-> IF script.kind = "dir" THEN "IsADirectoryError"
                                 ELSE "FileNotFoundError",
                        component |-> "",
                        message |-> [kind |-> "open", named |-> <<StartupScript>>]])
        ELSE IF content = script.lines THEN st
        ELSE [st EXCEPT !.files =
                 WriteFile(@, StartupScript, [script EXCEPT !.lines = content])]

-----------------------------------------------------------------------------
(* The entry points                                                        *)

\* how a run ends on an exception: inserv.py catches InstallationException
\* and writes it to stderr; everything else, and every exception of
\* inwebapp.py and inrest.py, leaves the interpreter with a traceback
Ends(f, exc) ==
    IF f = "serv" /\ exc.type = "InstallationException"
    THEN [outcome |-> "caught", exc |-> exc, stderr |-> "message"]
    ELSE [outcome |-> "uncaught", exc |-> exc, stderr |-> "traceback"]

NotEnded == [outcome |-> "running", exc |-> NoException, stderr |-> ""]

Completed == [outcome |-> "completed", exc |-> NoException, stderr |-> ""]

\* Plan with the service ini copied before the modules are installed
PlanIniFirst(f, c) ==
    IF f = "serv" /\ c.install
    THEN <<"stop", "disable", "venv_create", "copy_ini", "externals", "modules",
           "main_module", "service_log", "envini_create", "systemd_create",
           "service_install">>
    ELSE <<"not_implemented">>

\* Plan with an update-only install that recreates the environment
PlanUpdateRecreates(f, c) ==
    IF f = "webapp" /\ c.install
    THEN <<"apache_stop", "venv_create", "externals", "modules">>
         \o (IF ~c.update_only THEN <<"wsgi_file">> ELSE << >>)
         \o <<"statics", "files", "copy_ini">>
         \o (IF ~c.update_only THEN <<"configure", "setup_on_startup">> ELSE << >>)
    ELSE <<"stop", "disable", "remove_all", "systemd_remove", "ini_remove">>

\* Plan with an uninstall of the web application that stops Apache
PlanWebAppUninstallStops(f, c) ==
    CASE f = "serv" /\ c.install ->
            <<"stop", "disable", "venv_create", "externals", "modules", "main_module",
              "service_log", "copy_ini", "envini_create", "systemd_create",
              "service_install">>
            \o (IF c.start_immediately THEN <<"start">> ELSE << >>)
      [] f = "serv" /\ ~c.install ->
            <<"stop", "disable", "remove_all", "systemd_remove", "ini_remove">>
      [] f = "webapp" /\ c.install ->
            <<"apache_stop">>
            \o (IF ~c.update_only THEN <<"venv_create", "externals">> ELSE << >>)
            \o <<"modules">>
            \o (IF ~c.update_only THEN <<"wsgi_file">> ELSE << >>)
            \o <<"statics", "files", "copy_ini">>
            \o (IF ~c.update_only THEN <<"configure", "setup_on_startup">> ELSE << >>)
      [] f = "webapp" /\ ~c.install -> <<"apache_stop", "not_implemented">>
      [] OTHER ->
            <<"stop", "disable", "venv_create", "externals", "modules", "main_file",
              "wsgi_file", "express_create", "service_install">>

\* Plan with an install of the web application that honours --start
PlanWebAppStarts(f, c) ==
    CASE f = "serv" /\ c.install ->
            <<"stop", "disable", "venv_create", "externals", "modules", "main_module",
              "service_log", "copy_ini", "envini_create", "systemd_create",
              "service_install">>
            \o (IF c.start_immediately THEN <<"start">> ELSE << >>)
      [] f = "serv" /\ ~c.install ->
            <<"stop", "disable", "remove_all", "systemd_remove", "ini_remove">>
      [] f = "webapp" /\ c.install ->
            <<"apache_stop">>
            \o (IF ~c.update_only THEN <<"venv_create", "externals">> ELSE << >>)
            \o <<"modules">>
            \o (IF ~c.update_only THEN <<"wsgi_file">> ELSE << >>)
            \o <<"statics", "files", "copy_ini">>
            \o (IF ~c.update_only THEN <<"configure", "setup_on_startup">> ELSE << >>)
            \o (IF c.start_immediately THEN <<"start">> ELSE << >>)
      [] f = "webapp" /\ ~c.install -> <<"not_implemented">>
      [] OTHER ->
            <<"stop", "disable", "venv_create", "externals", "modules", "main_file",
              "wsgi_file", "express_create", "service_install">>

\* the sequence of calls of __main__, by flavor and command line
Plan(f, c) ==
    CASE f = "serv" /\ c.install ->
            <<"stop", "disable", "venv_create", "externals", "modules", "main_module",
              "service_log", "copy_ini", "envini_create", "systemd_create",
              "service_install">>
            \o (IF c.start_immediately THEN <<"start">> ELSE << >>)
      [] f = "serv" /\ ~c.install ->
            <<"stop", "disable", "remove_all", "systemd_remove", "ini_remove">>
      [] f = "webapp" /\ c.install ->
            <<"apache_stop">>
            \o (IF ~c.update_only THEN <<"venv_create", "externals">> ELSE << >>)
            \o <<"modules">>
            \o (IF ~c.update_only THEN <<"wsgi_file">> ELSE << >>)
            \o <<"statics", "files", "copy_ini">>
            \o (IF ~c.update_only THEN <<"configure", "setup_on_startup">> ELSE << >>)
      [] f = "webapp" /\ ~c.install -> <<"not_implemented">>
      [] OTHER ->
            <<"stop", "disable", "venv_create", "externals", "modules", "main_file",
              "wsgi_file", "express_create", "service_install">>

\* the components are built before the first step: the getters called for
\* their arguments may raise, and the one for the Django manager stores what
\* it finds
Constructors(f, store, files) ==
    LET venv == get_path_venv(f, store)
        mgr == NewManager(get_modules_lookup_paths(f, store), Dir(venv.val))
        django == get_path_origin_django_manager(f, store, files)
        base == get_path_base_dir(f, django.store)
        ini == get_path_service_ini(f, django.store)
        short == get_service_short_name(f, django.store)
        ok == [raised |-> NoException, store |-> store, manager |-> mgr]
    IN  IF venv.exc # "none"
        THEN [ok EXCEPT !.raised = ConfigError(venv.exc, SECTION_PATH, OPTION_VENV)]
        ELSE IF f # "webapp" THEN ok
        ELSE IF django.raised.type # "none"
        THEN [ok EXCEPT !.raised = django.raised, !.store = django.store]
        ELSE IF base.exc # "none"
        THEN [ok EXCEPT !.raised = ConfigError(base.exc, SECTION_PATH, "service-base"),
                        !.store = django.store]
        ELSE IF ini.exc # "none"
        THEN [ok EXCEPT !.raised = ConfigError(ini.exc, SECTION_PATH, OPTION_SERVICE_INI),
                        !.store = django.store]
        ELSE IF short.exc # "none"
        THEN [ok EXCEPT !.raised = ConfigError(short.exc, SECTION_GENERAL, OPTION_SHORT_NAME),
                        !.store = django.store]
        ELSE [ok EXCEPT !.store = django.store]

\* CommandlineConfig() in __main__ of inserv.py and inwebapp.py
CommandlineInit ==
    /\ pc = "cmdline"
    /\ LET r == CommandlineConfig(flavor, cli)
       IN  /\ cmdline' = r.self
           /\ IF r.raised.type # "none"
              THEN pc' = "done" /\ run' = Ends(flavor, r.raised)
              ELSE pc' = "logging" /\ run' = run
    /\ UNCHANGED <<cfgVars, execVars, callVars, modVars, cli, ip, trace, issued>>

\* init_logging: basicConfig opens the log file in the log directory
InitLogging ==
    /\ pc = "logging"
    /\ IF exists(fs, DirPath(LogFileDir(flavor)))
       THEN /\ pc' = "config"
            /\ run' = run
            /\ fs' = WriteFile(fs, join(LogFileDir(flavor), <<"run", ".log">>),
                               RegularFile(<< >>))
       ELSE /\ pc' = "done"
            /\ run' = Ends(flavor, [type |-> "FileNotFoundError", component |-> "",
                                    message |-> [kind |-> "open",
                                                 named |-> <<LogFileDir(flavor)>>]])
            /\ fs' = fs
    /\ UNCHANGED <<cfgVars, execVars, callVars, manager, mod_last, mod_calls, cli, cmdline, ip,
                   trace, issued>>

\* what __main__ does with the outcome of the Config constructor
ConfigBuilt ==
    /\ pc = "config"
    /\ IF config'.phase = "raised"
       THEN /\ pc' = "done"
            /\ run' = Ends(flavor, [type |-> config'.exc, component |-> config'.component,
                                    message |-> [kind |-> "config",
                                                 named |-> config'.violations]])
       ELSE pc' = "components" /\ run' = run
    /\ UNCHANGED <<execVars, callVars, modVars, cli, cmdline, ip, trace, issued>>

RunServConfig == ServConfigInit /\ ConfigBuilt

RunWebAppConfig == WebAppConfigInit /\ ConfigBuilt

RunRestConfig == RestConfigInit /\ ConfigBuilt

\* the constructors of the components, between Config and the first step
BuildComponents ==
    /\ pc = "components"
    /\ LET r == Constructors(flavor, config.store, fs)
       IN  /\ manager' = r.manager
           /\ config' = [config EXCEPT !.store = r.store]
           /\ IF r.raised.type # "none"
              THEN pc' = "done" /\ run' = Ends(flavor, r.raised) /\ ip' = ip
              ELSE pc' = "steps" /\ run' = run /\ ip' = 1
    /\ UNCHANGED <<flavor, docs, execVars, callVars, fs, mod_last, mod_calls, cli, cmdline,
                   trace, issued>>

-----------------------------------------------------------------------------
(* The steps of the sequences                                              *)

\* what the components were constructed with
ServiceName == get_service_full_name(flavor, config.store).val
Venv == Dir(get_path_venv(flavor, config.store).val)
ServiceIni == Dir(get_path_service_ini(flavor, config.store).val)
ShortName == get_service_short_name(flavor, config.store).val
BaseDir == Dir(get_path_base_dir(flavor, config.store).val)
Apachectl == join(ServiceIni, <<"apachectl">>)
DjangoManager == ManagePyPath(Get(flavor, config.store, SECTION_PATH, "django-manager").val)

\* the record a step starts from
Running(rcs) ==
    [files |-> fs, issued |-> issued, raised |-> NoException, manager |-> manager,
     store |-> config.store, rcs |-> rcs, n |-> 0]

\* the step that goes on to the next step after an exception
TakenNoAbort(name, r) ==
    /\ trace' = Append(trace, name)
    /\ fs' = r.files
    /\ issued' = r.issued
    /\ manager' = r.manager
    /\ config' = [config EXCEPT !.store = r.store]
    /\ ip' = ip + 1
    /\ IF ip = Len(Plan(flavor, cmdline))
       THEN pc' = "done" /\ run' = Completed
       ELSE pc' = pc /\ run' = run
    /\ UNCHANGED <<flavor, docs, execVars, callVars, mod_last, mod_calls, cli, cmdline>>

\* a step is taken with result r: an exception ends the run where it is,
\* with what was done left as it is; otherwise the next step is due, and
\* after the last one the run is complete
Taken(name, r) ==
    /\ trace' = Append(trace, name)
    /\ fs' = r.files
    /\ issued' = r.issued
    /\ manager' = r.manager
    /\ config' = [config EXCEPT !.store = r.store]
    /\ IF r.raised.type # "none"
       THEN pc' = "done" /\ run' = Ends(flavor, r.raised) /\ ip' = ip
       ELSE /\ ip' = ip + 1
            /\ IF ip = Len(Plan(flavor, cmdline))
               THEN pc' = "done" /\ run' = Completed
               ELSE pc' = pc /\ run' = run
    /\ UNCHANGED <<flavor, docs, execVars, callVars, mod_last, mod_calls, cli, cmdline>>

\* step name is the next call of the sequence
Due(name) ==
    /\ pc = "steps"
    /\ ip <= Len(Plan(flavor, cmdline))
    /\ Plan(flavor, cmdline)[ip] = name

\* the exit codes of the at most k commands a step runs
ExitCodes(k) == [1..k -> Outcomes]

\* a getter's exception leaves the step
Failing(st, g, s, o) == Raise(st, ConfigError(g.exc, s, o))

Stop ==
    /\ Due("stop")
    /\ \E rcs \in ExitCodes(1) : Taken("stop", service_stop(Running(rcs), ServiceName))

Disable ==
    /\ Due("disable")
    /\ \E rcs \in ExitCodes(1) : Taken("disable", service_disable(Running(rcs), ServiceName))

VenvCreate ==
    /\ Due("venv_create")
    /\ \E rcs \in ExitCodes(1) : Taken("venv_create", venv_create(Running(rcs), Venv))

Externals ==
    /\ Due("externals")
    /\ \E rcs \in ExitCodes(Len(get_external_modules(flavor, config.store))) :
         LET st == Running(rcs)
         IN  Taken("externals",
                   InstallExternals(st, Venv, get_external_modules(flavor, st.store), 1))

Modules ==
    /\ Due("modules")
    /\ \E rcs \in ExitCodes(2 * Len(get_modules(flavor, config.store))) :
         LET st == Running(rcs)
         IN  Taken("modules", InstallModules(st, get_modules(flavor, st.store), 1))

MainModule ==
    /\ Due("main_module")
    /\ \E rcs \in ExitCodes(1) :
         LET st == Running(rcs)
             g == get_main_module(flavor, st.store)
         IN  Taken("main_module",
                   IF g.exc # "none"
                   THEN Failing(st, g, SECTION_MODULES, OPTION_MAIN_MODULE)
                   ELSE main_module(st, g.val))

ServiceLog ==
    /\ Due("service_log")
    /\ \E rcs \in ExitCodes(2) : Taken("service_log", service_log(Running(rcs), flavor))

CopyIni ==
    /\ Due("copy_ini")
    /\ \E rcs \in ExitCodes(2) :
         Taken("copy_ini",
               copy_ini(Running(rcs), flavor, ServiceIni, OriginIni(flavor, ShortName)))

EnvIniCreate ==
    /\ Due("envini_create")
    /\ \E rcs \in ExitCodes(0) :
         Taken("envini_create", envini_create(Running(rcs), flavor, cmdline.dbtest_mode))

\* systemd_creator.create of inserv.py: ExecStart is where the main module
\* went, WorkingDirectory the directory of that path
SystemdCreate ==
    /\ Due("systemd_create")
    /\ \E rcs \in ExitCodes(0) :
         LET st == Running(rcs)
             description == GetFallback(flavor, st.store, SECTION_SERVICE,
                                        "description", "BHS Service").val
             exec_start == st.manager.main_module_target_path
         IN  Taken("systemd_create",
                   systemd_create(st, TemplateFile(flavor), SystemdTarget(ServiceName),
                                  exec_start, DirPath(exec_start.dir), description,
                                  <<description # "", exec_start # NoPath,
                                    Len(exec_start.dir) > 0>>))

ServiceInstall ==
    /\ Due("service_install")
    /\ \E rcs \in ExitCodes(2) :
         Taken("service_install", service_install(Running(rcs), ServiceName))

Start ==
    /\ Due("start")
    /\ \E rcs \in ExitCodes(1) : Taken("start", service_start(Running(rcs), ServiceName))

RemoveAll ==
    /\ Due("remove_all")
    /\ \E rcs \in ExitCodes(1) : Taken("remove_all", remove_all(Running(rcs)))

SystemdRemove ==
    /\ Due("systemd_remove")
    /\ \E rcs \in ExitCodes(1) :
         Taken("systemd_remove", systemd_remove(Running(rcs), SystemdTarget(ServiceName)))

IniRemove ==
    /\ Due("ini_remove")
    /\ \E rcs \in ExitCodes(1) : Taken("ini_remove", ini_remove(Running(rcs), ServiceIni))

ApacheStop ==
    /\ Due("apache_stop")
    /\ \E rcs \in ExitCodes(1) : Taken("apache_stop", apache_stop(Running(rcs), Apachectl))

WsgiFile ==
    /\ Due("wsgi_file")
    /\ \E rcs \in ExitCodes(2) :
         LET st == Running(rcs)
             g == get_wsgi_file(flavor, st.store)
         IN  Taken("wsgi_file",
                   IF g.exc # "none"
                   THEN Failing(st, g, SECTION_MODULES, "wsgi")
                   ELSE install_file(st, g.val))

Statics ==
    /\ Due("statics")
    /\ \E rcs \in ExitCodes(1) :
         Taken("statics", statics_install(Running(rcs), get_python(Venv), DjangoManager))

Files ==
    /\ Due("files")
    /\ \E rcs \in ExitCodes(2 * Len(get_files(config.store).val)) :
         LET st == Running(rcs)
             g == get_files(st.store)
         IN  Taken("files",
                   IF g.exc # "none"
                   THEN Failing(st, g, "FILES", "")
                   ELSE InstallFiles(st, g.val, 1))

Configure ==
    /\ Due("configure")
    /\ \E rcs \in ExitCodes(1) :
         Taken("configure",
               configure(Running(rcs), get_python(Venv), join(BaseDir, <<"manage", ".py">>),
                         BaseDir, ServiceIni))

SetupOnStartup ==
    /\ Due("setup_on_startup")
    /\ \E rcs \in ExitCodes(0) :
         Taken("setup_on_startup", setup_on_startup(Running(rcs), Apachectl))

\* the uninstall branch of inwebapp.py: log.error('NOT IMPLEMENTED')
NotImplemented ==
    /\ Due("not_implemented")
    /\ \E rcs \in ExitCodes(0) : Taken("not_implemented", Running(rcs))

\* inrest.py installs its main module with install_file
MainFile ==
    /\ Due("main_file")
    /\ \E rcs \in ExitCodes(2) :
         LET st == Running(rcs)
             g == get_main_module(flavor, st.store)
         IN  Taken("main_file",
                   IF g.exc # "none"
                   THEN Failing(st, g, SECTION_MODULES, OPTION_MAIN_MODULE)
                   ELSE install_file(st, g.val))

\* systemd_creator.create of inrest.py: ApacheModWsgiExpressServiceCreator
\* passes the start command of mod_wsgi-express and no description
ExpressCreate ==
    /\ Due("express_create")
    /\ \E rcs \in ExitCodes(0) :
         LET st == Running(rcs)
             w == get_wsgi_file(flavor, st.store)
             port == Get(flavor, st.store, "REST", "port")
         IN  Taken("express_create",
                   IF w.exc # "none" THEN Failing(st, w, SECTION_MODULES, "wsgi")
                   ELSE IF port.exc # "none" THEN Failing(st, port, "REST", "port")
                   ELSE systemd_create(st, TemplateFile(flavor), SystemdTarget(ServiceName),
                          [program |-> join(Venv \o <<"bin">>, <<"mod_wsgi-express">>),
                           wsgi_file |-> Tokens(w.val), port |-> port.val],
                          DirPath(st.manager.base_dir), "",
                          <<FALSE, TRUE, Len(st.manager.base_dir) > 0>>))

-----------------------------------------------------------------------------
(* Specifications                                                          *)

IdleConfig ==
    /\ flavor = "serv"
    /\ docs = [credentials |-> NoFile, common |-> NoFile, config |-> NoFile]
    /\ config = NewConfig

IdleExec ==
    /\ subproc = [component |-> "COMMAND", error |-> NoError]
    /\ exec_last = NoCall
    /\ exec_calls = 0

IdleModule ==
    /\ manager = NewManager(<< <<"..">> >>, VenvPath)
    /\ fs = [q \in {} |-> Nothing]
    /\ mod_last = NoModuleCall
    /\ mod_calls = 0

NoAnswers ==
    [config_file |-> "", dbtest_mode |-> FALSE, update_only |-> FALSE,
     start_immediately |-> FALSE]

\* inrest.py reads no command line
NoCli == [argv |-> << >>, given |-> "file", guess |-> "missing", answers |-> NoAnswers]

\* no call of create yet
NoUnitCall ==
    [called |-> FALSE, service_descripton |-> "", exec_start |-> "",
     working_directory |-> "", template |-> << >>, before |-> Nothing, exc |-> "none"]

IdleCalls ==
    /\ log_returned = << >>
    /\ unit_last = NoUnitCall
    /\ got = << >>

IdleRun ==
    /\ cli = NoCli
    /\ cmdline = NewCommandline
    /\ pc = "idle"
    /\ ip = 0
    /\ run = NotEnded
    /\ trace = << >>
    /\ issued = << >>

InitConfig ==
    /\ flavor \in Flavors
    \* inserv.py and inwebapp.py get the path of an existing file from
    \* CommandlineConfig; inrest.py names a fixed path that may not exist
    /\ \E cr \in EarlyDocs("credentials"),
          cm \in (IF flavor = "serv" THEN EarlyDocs("common") ELSE {NoFile}),
          cf \in (IF flavor = "rest" THEN ConfigDocs \cup {NoFile} ELSE ConfigDocs) :
            docs = [credentials |-> cr, common |-> cm, config |-> cf]
    /\ config = NewConfig
    /\ IdleExec
    /\ IdleModule
    /\ IdleCalls
    /\ IdleRun

NextConfig ==
    \/ ServConfigInit /\ UNCHANGED <<execVars, callVars, modVars, runVars>>
    \/ WebAppConfigInit /\ UNCHANGED <<execVars, callVars, modVars, runVars>>
    \/ RestConfigInit /\ UNCHANGED <<execVars, callVars, modVars, runVars>>

InitExec ==
    /\ subproc \in [component : Components, error : {NoError}]
    /\ exec_last = NoCall
    /\ exec_calls = 0
    /\ IdleConfig
    /\ IdleModule
    /\ IdleCalls
    /\ IdleRun

NextExec == Execute /\ UNCHANGED <<cfgVars, modVars, runVars, callVars>>

InitModule ==
    /\ \E lookup_paths \in LookupPathLists : manager = NewManager(lookup_paths, VenvPath)
    /\ \E src \in [LookupDirs -> SourceEntries], tgt \in TargetEntries :
         fs = [q \in {join(d, AppPy) : d \in LookupDirs} \cup {join(dirname(VenvPath), AppPy)} |->
                 IF q.dir \in LookupDirs THEN src[q.dir] ELSE tgt]
    /\ mod_last = NoModuleCall
    /\ mod_calls = 0
    /\ IdleConfig
    /\ IdleExec
    /\ IdleCalls
    /\ IdleRun

NextModule ==
    \/ FindModule /\ UNCHANGED <<cfgVars, execVars, callVars, runVars>>
    \/ InstallMainModule /\ UNCHANGED <<cfgVars, execVars, callVars, runVars>>

\* what may follow the config-file argument
Flags == {DBTEST, "--uninstall", "-u", START, UPDATE, "--bogus"}

ArgLists(n) == UNION {[1..k -> Flags] : k \in 0..n}

\* what is at the path as typed and at the guessed path
FileStates ==
    {<<"file", "missing">>, <<"dir", "missing">>, <<"unreadable", "missing">>,
     <<"missing", "file">>, <<"missing", "missing">>}

\* the command lines: a config-file argument and up to n parameters, or no
\* argument at all and the answers typed at the prompts
CommandLines(n) ==
    {[argv |-> <<"foo">> \o args, given |-> st[1], guess |-> st[2], answers |-> NoAnswers] :
        args \in ArgLists(n), st \in FileStates}
    \cup
    {[argv |-> << >>, given |-> st[1], guess |-> st[2], answers |-> a] :
        st \in FileStates,
        a \in [config_file : {"foo"}, dbtest_mode : BOOLEAN, update_only : BOOLEAN,
               start_immediately : BOOLEAN]}

\* the command lines of a run that gets as far as the steps
PlainCommandLines ==
    {c \in CommandLines(1) :
        /\ c.given = "file"
        /\ c.answers.update_only = c.answers.start_immediately}

\* the beginning of __main__
StartOfMain ==
    /\ config = NewConfig
    /\ manager = NewManager(<< <<"..">> >>, VenvPath)
    /\ mod_last = NoModuleCall
    /\ mod_calls = 0
    /\ IdleCalls
    /\ IdleExec
    /\ cmdline = NewCommandline
    /\ pc = IF flavor = "rest" THEN "logging" ELSE "cmdline"
    /\ ip = 0
    /\ run = NotEnded
    /\ trace = << >>
    /\ issued = << >>

\* a run on any of the machines and documents of the model
InitRun ==
    /\ flavor \in Flavors
    /\ \E cr \in RunCredentials, cm \in RunCommons(flavor), cf \in RunConfigs(flavor) :
         docs = [credentials |-> cr, common |-> cm, config |-> cf]
    /\ fs \in RunFiles(flavor)
    /\ cli \in (IF flavor = "rest" THEN {NoCli} ELSE PlainCommandLines)
    /\ StartOfMain

\* a run on any command line, on a healthy machine with complete documents
InitCmdline ==
    /\ flavor \in Flavors
    /\ docs = [credentials |-> Doc(CredentialsOfFoo),
               common |-> IF flavor = "serv" THEN Doc(CommonModules) ELSE NoFile,
               config |-> CASE flavor = "serv" -> Doc(ServWithModules)
                            [] flavor = "webapp" -> Doc(WebAppComplete)
                            [] OTHER -> Doc(RestComplete)]
    /\ fs = HealthyFiles(flavor)
    /\ cli \in (IF flavor = "rest" THEN {NoCli} ELSE CommandLines(MaxArgs))
    /\ StartOfMain

NextRun ==
    \/ CommandlineInit
    \/ InitLogging
    \/ RunServConfig
    \/ RunWebAppConfig
    \/ RunRestConfig
    \/ BuildComponents
    \/ Stop
    \/ Disable
    \/ VenvCreate
    \/ Externals
    \/ Modules
    \/ MainModule
    \/ ServiceLog
    \/ CopyIni
    \/ EnvIniCreate
    \/ SystemdCreate
    \/ ServiceInstall
    \/ Start
    \/ RemoveAll
    \/ SystemdRemove
    \/ IniRemove
    \/ ApacheStop
    \/ WsgiFile
    \/ Statics
    \/ Files
    \/ Configure
    \/ SetupOnStartup
    \/ NotImplemented
    \/ MainFile
    \/ ExpressCreate

vars == <<cfgVars, execVars, modVars, runVars, callVars>>

\* Config built from its documents
SpecConfig == InitConfig /\ [][NextConfig]_vars

\* a SubprocessAction object executing commands
SpecExec == InitExec /\ [][NextExec]_vars

\* a LocalModuleManager locating and installing modules
SpecModule == InitModule /\ [][NextModule]_vars

\* a run of an entry point
SpecRun == InitRun /\ [][NextRun]_vars

\* a run of an entry point, by its command line
SpecCmdline == InitCmdline /\ [][NextRun]_vars

-----------------------------------------------------------------------------
(* Claims about Config                                                     *)

\* the positions in the flavor's document list of the documents that define
\* the stored key kk
Defining(kk) ==
    {i \in DOMAIN DocList(flavor) :
        /\ docs[DocList(flavor)[i]].exists
        /\ kk \in XKeys(flavor, docs[DocList(flavor)[i]])}

LastDefining(kk) == CHOOSE i \in Defining(kk) : \A j \in Defining(kk) : j <= i

\* what the last document defining kk says
LastValue(kk) == DocValue(flavor, docs[DocList(flavor)[LastDefining(kk)]], kk)

\* C1: once the documents are read, every option that some document
\* defines is stored with the value of the last document of the list that
\* defines it, an option no document defines is not stored, and get answers
\* with that value (interpolated)
C1_OverrideLaw ==
    config.was_read =>
        \A k \in RequiredKeys \cup CapitalKeys :
            LET kk == XKey(flavor, k)
            IN  IF Defining(kk) = {}
                THEN kk \notin DOMAIN config.store
                ELSE /\ kk \in DOMAIN config.store
                     /\ config.store[kk] = LastValue(kk)
                     /\ Get(flavor, config.store, k[1], k[2])
                          = Interpolate(flavor, config.store, LastValue(kk), 1)
                     /\ ~HasReference(LastValue(kk)) =>
                          Get(flavor, config.store, k[1], k[2]).val = LastValue(kk)

\* C1 witness: a Config of three documents is built where one option is
\* defined by the common and by the specific document, and another by the
\* credentials document alone
C1_Witness ==
    /\ flavor = "serv"
    /\ config.phase = "built"
    /\ \E k1, k2 \in RequiredKeys :
        /\ k1 # k2
        /\ k1 \in DOMAIN docs["common"].opts
        /\ k1 \in DOMAIN docs["config"].opts
        /\ docs["config"].opts[k1] = Literal("config")
        /\ k2 \in DOMAIN docs["credentials"].opts
        /\ k2 \notin DOMAIN docs["config"].opts
        /\ k2 \notin DOMAIN docs["common"].opts
        /\ Get(flavor, config.store, k1[1], k1[2]).val = Literal("config")
        /\ Get(flavor, config.store, k2[1], k2[2]).val = Literal("credentials")

\* the required pairs that are missing from the documents read: the section
\* is absent, the option is absent, or the value is empty
MissingRequired ==
    {i \in DOMAIN REQUIRED_OPTIONS(flavor) :
        LET kk == XKey(flavor, REQUIRED_OPTIONS(flavor)[i])
        IN  kk \notin DOMAIN config.store \/ config.store[kk] = ""}

\* C2: when N >= 1 required pairs are missing, _verfy_config fails with one
\* InstallationException that lists all N of them
C2_VerifyReportsAllMissing ==
    (config.was_read /\ MissingRequired # {}) =>
        /\ config.exc = "InstallationException"
        /\ Range(config.violations) =
              {REQUIRED_OPTIONS(flavor)[i] : i \in MissingRequired}
        /\ Len(config.violations) = Cardinality(MissingRequired)

-----------------------------------------------------------------------------
(* Claims about SubprocessAction                                           *)

\* C5: a run of execute counts as a success exactly when the exit code is
\* zero; a failure with must_succeed raises an InstallationException with the
\* command, the exit code and both streams; a failure without must_succeed
\* raises nothing and logs a warning with the same detail
C5_ExecuteClassifies ==
    exec_last.made =>
        LET detail == ErrorDetail(exec_last.command, exec_last.res)
        IN  /\ (exec_last.log.level = "debug") <=> (exec_last.res.returncode = 0)
            /\ exec_last.res.returncode = 0 => exec_last.raised.type = "none"
            /\ (exec_last.res.returncode # 0 /\ exec_last.must_succeed) =>
                  /\ exec_last.raised.type = "InstallationException"
                  /\ exec_last.raised.component = subproc.component
                  /\ exec_last.raised.message = detail
                  /\ detail.command = exec_last.command
                  /\ detail.returncode = exec_last.res.returncode
                  /\ exec_last.res.stdout # "" => detail.stdout = exec_last.res.stdout
                  /\ exec_last.res.stderr # "" => detail.stderr = exec_last.res.stderr
            /\ (exec_last.res.returncode # 0 /\ ~exec_last.must_succeed) =>
                  /\ exec_last.raised.type = "none"
                  /\ exec_last.log = [level |-> "warning", message |-> detail]

\* C5 witness: a must-succeed command that failed after a command that
\* failed without having to succeed
C5_Witness ==
    /\ exec_calls >= 2
    /\ exec_last.made
    /\ exec_last.must_succeed
    /\ exec_last.res.returncode = 2
    /\ exec_last.raised.type = "InstallationException"

-----------------------------------------------------------------------------
(* Claims about LocalModuleManager                                         *)

\* the file name the last call looked for
Candidate ==
    IF mod_last.is_regular_file THEN mod_last.module
    ELSE IF mod_last.module[Len(mod_last.module)] \in {".py", ".wsgi"}
         THEN mod_last.module
         ELSE Append(mod_last.module, ".py")

\* the positions of the lookup paths that hold the candidate as a regular file
Matches ==
    {i \in DOMAIN manager.lookup_paths :
        Lookup(fs, [dir |-> manager.lookup_paths[i], file |-> Candidate]).kind = "file"}

\* C4: _find_module returns a path exactly when one lookup path holds the
\* candidate as a regular file, and then that path, wherever it stands in the
\* list; with no match it raises naming all the lookup paths, with several
\* it raises naming all the matching paths
C4_FindModuleExactlyOne ==
    mod_last.op = "_find_module" =>
        /\ (mod_last.raised.type = "none") <=> (Cardinality(Matches) = 1)
        /\ Cardinality(Matches) = 1 =>
              \E i \in Matches :
                  mod_last.ret = [dir |-> manager.lookup_paths[i], file |-> Candidate]
        /\ Cardinality(Matches) = 0 =>
              /\ mod_last.raised.type = "InstallationException"
              /\ mod_last.raised.message.kind = "not located"
              /\ mod_last.raised.message.named = manager.lookup_paths
        /\ Cardinality(Matches) > 1 =>
              /\ mod_last.raised.type = "InstallationException"
              /\ mod_last.raised.message.kind = "multiple locations"
              /\ Len(mod_last.raised.message.named) = Cardinality(Matches)
              /\ Range(mod_last.raised.message.named) =
                    {[dir |-> manager.lookup_paths[i], file |-> Candidate] : i \in Matches}

\* C4 witness: of two different lookup paths only the second holds the
\* module, and _find_module returned the second one's path
C4_Witness ==
    /\ mod_last.op = "_find_module"
    /\ Len(manager.lookup_paths) = 2
    /\ manager.lookup_paths[1] # manager.lookup_paths[2]
    /\ Matches = {2}
    /\ mod_last.raised.type = "none"
    /\ mod_last.ret.dir = manager.lookup_paths[2]

\* C3: when install_main_module fails because the first line of the source
\* is no interpreter directive, the target location is as it was before the
\* call: not created, not truncated, not overwritten
C3_NoShebangLeavesTarget ==
    (/\ mod_last.op = "install_main_module"
     /\ mod_last.raised.type = "InstallationException"
     /\ mod_last.raised.message.kind = "no shebang") =>
        Lookup(fs, mod_last.target) = mod_last.target_before

-----------------------------------------------------------------------------
(* Claims about the runs of the entry points                               *)

IsPrefix(s, t) == Len(s) <= Len(t) /\ s = SubSeq(t, 1, Len(s))

\* s is t with some elements left out
RECURSIVE IsSubsequence(_, _)
IsSubsequence(s, t) ==
    IF s = << >> THEN TRUE
    ELSE IF t = << >> THEN FALSE
    ELSE IF Head(s) = Head(t) THEN IsSubsequence(Tail(s), Tail(t))
    ELSE IsSubsequence(s, Tail(t))

\* the machine is as a healthy one wherever the run looks for something
HealthyMachine ==
    \A p \in DOMAIN HealthyFiles(flavor) : Lookup(fs, p) = HealthyFiles(flavor)[p]

AllSucceeded == \A i \in DOMAIN issued : issued[i].returncode = 0

\* a command line that selects an install: a readable file, and no
\* parameter but --db:test and --start
InstallCommandLine ==
    /\ cli.given = "file"
    /\ \A i \in DOMAIN cli.argv : i > 1 => cli.argv[i] \in {DBTEST, START}

\* the steps of the scenario, as the claim lists them
ClaimedOrder ==
    <<"stop", "disable", "venv_create", "externals", "modules", "main_module",
      "copy_ini", "envini_create", "systemd_create", "service_install">>

\* the steps with the one the scenario leaves out, between the main module
\* and the service ini
InstallOrder ==
    <<"stop", "disable", "venv_create", "externals", "modules", "main_module",
      "service_log", "copy_ini", "envini_create", "systemd_create", "service_install">>

\* the unit file names the deployed main module as ExecStart
UnitStartsMainModule ==
    LET unit == Lookup(fs, SystemdTarget(ServiceName))
        deployed == join(dirname(Venv), module_file(Tokens(get_main_module(flavor, config.store).val)))
    IN  /\ unit.kind = "file"
        /\ \E i \in DOMAIN unit.lines :
              /\ unit.lines[i].section = "Service"
              /\ unit.lines[i].option = "ExecStart"
              /\ unit.lines[i].value = deployed
        /\ isfile(fs, deployed)
        /\ readline(Lookup(fs, deployed)) = NewShebang(Venv)

\* C6 as stated: in a generic-service install run on a config that defines
\* only SERVICE.name, PATH.service-venv and MODULES.main, with the
\* credentials file present (and the common file, the modules and the
\* template in place) and every command succeeding, the run ends with all
\* the steps of the scenario taken in the order of the scenario.
C6_ClaimedConfigInstalls ==
    (/\ flavor = "serv"
     /\ docs["config"] = Doc(ServClaimed)
     /\ docs["credentials"] = Doc(CredentialsOfFoo)
     /\ docs["common"].exists
     /\ InstallCommandLine
     /\ HealthyMachine
     /\ AllSucceeded
     /\ pc = "done")
    => (run.outcome = "completed" /\ IsSubsequence(ClaimedOrder, trace))

\* what the scenario needs besides: all six required options defined and
\* not empty, user and password under the upper-cased short name in the
\* credentials, the common file there
C6_Given ==
    /\ flavor = "serv"
    /\ \A i \in DOMAIN REQUIRED_OPTIONS("serv") :
          /\ REQUIRED_OPTIONS("serv")[i] \in DOMAIN docs["config"].opts
          /\ docs["config"].opts[REQUIRED_OPTIONS("serv")[i]] # ""
    /\ docs["credentials"] = Doc(CredentialsOfFoo)
    /\ docs["common"].exists
    /\ InstallCommandLine
    /\ HealthyMachine
    /\ AllSucceeded

\* C6, amended: in a generic-service install run on a config that defines
\* all six required options, with credentials for the service and the common
\* file present, a healthy machine and every command succeeding, the steps
\* are entered in exactly this order and all of them are reached: stop,
\* disable, create venv, external modules, local modules, main module,
\* service log directory, service ini, env.ini, unit file, daemon-reload and
\* enable (then start, if asked for); and the unit file written has
\* ExecStart equal to the path of the deployed main module.
C6_CompleteConfigInstalls ==
    C6_Given =>
        /\ IsPrefix(trace, InstallOrder \o <<"start">>)
        /\ pc = "steps" => Len(trace) = ip - 1
        /\ pc = "done" =>
              /\ run.outcome = "completed"
              /\ trace = InstallOrder \o (IF cmdline.start_immediately THEN <<"start">> ELSE << >>)
              /\ UnitStartsMainModule

C6_Witness ==
    /\ C6_Given
    /\ pc = "done"
    /\ run.outcome = "completed"
    /\ trace = InstallOrder
    /\ UnitStartsMainModule
    /\ Len(issued) >= 10

\* the teardown sequence
Teardown == <<"stop", "disable", "remove_all", "systemd_remove", "ini_remove">>

\* C7: in every flavor, a run selected as uninstall that runs to its end has
\* performed the teardown in this order: stop, disable, delete the deployed
\* tree, delete the unit file, delete the config copy.
C7_UninstallTearsDown ==
    (pc = "done" /\ run.outcome = "completed" /\ ~cmdline.install) => trace = Teardown

\* a command that had to succeed and did not
FatalCommand(i) == issued[i].must_succeed /\ issued[i].returncode # 0

\* the run was ended by an exception of one of its steps
Aborted == pc = "done" /\ run.outcome \in {"caught", "uncaught"} /\ ip >= 1

\* C8: in an install run the steps are entered in the order of the
\* sequence; a must-succeed command that exits non-zero is the last command
\* of the run and its exception ends the run; a run ended by an exception
\* of a step (a failed must-succeed command, a module not located or located
\* twice, a main module without shebang) has entered no step after that
\* one; and the step that ends the run takes nothing back: every command
\* issued and every file there before is still there after it.
C8_FatalErrorAborts ==
    /\ [](cmdline.install =>
            /\ IsPrefix(trace, Plan(flavor, cmdline))
            /\ \A i \in DOMAIN issued :
                  FatalCommand(i) =>
                     /\ i = Len(issued)
                     /\ Aborted
                     /\ run.exc.type = "InstallationException"
                     /\ run.exc.message.command = [argv |-> issued[i].argv, on |-> issued[i].on]
            /\ Aborted => Len(trace) = ip)
    /\ [][(cmdline.install /\ Aborted') =>
            /\ IsPrefix(issued, issued')
            /\ IsPrefix(trace, trace')
            /\ \A p \in DOMAIN fs : exists(fs, p) => exists(fs', p)]_vars

C8_Witness ==
    /\ cmdline.install
    /\ Aborted
    /\ Len(trace) >= 5
    /\ Len(issued) >= 4
    /\ FatalCommand(Len(issued))
    /\ exists(fs, DirPath(Venv))
    /\ \E i \in DOMAIN issued : "venv" \in Range(issued[i].argv)

\* the steps of environment recreation and of service registration
Recreation == {"venv_create", "externals", "configure", "setup_on_startup"}

\* C9: the steps of an update-only install are those of the full install
\* with some left out, in the same order; an update-only run never enters
\* venv create, external modules, Apache configuration or startup-script
\* registration and never issues their commands; and one that runs to its
\* end has installed the local modules, the static files, the listed files
\* and the service ini.
C9_UpdateOnlyIsSubset ==
    (flavor = "webapp" /\ pc \notin {"cmdline", "idle"} /\ cmdline.install
        /\ cmdline.update_only) =>
        LET full == Plan(flavor, [cmdline EXCEPT !.update_only = FALSE])
        IN  /\ IsSubsequence(Plan(flavor, cmdline), full)
            /\ Plan(flavor, cmdline) # full
            /\ IsPrefix(trace, Plan(flavor, cmdline))
            /\ \A i \in DOMAIN trace : trace[i] \notin Recreation
            /\ \A i \in DOMAIN issued :
                  Range(issued[i].argv) \cap {"venv", "pip3", "runmodwsgi"} = {}
            /\ run.outcome = "completed" =>
                  {"modules", "statics", "files", "copy_ini"} \subseteq Range(trace)

C9_Witness ==
    /\ flavor = "webapp"
    /\ cmdline.install
    /\ cmdline.update_only
    /\ run.outcome = "completed"
    /\ trace = <<"apache_stop", "modules", "statics", "files", "copy_ini">>
    /\ \E i \in DOMAIN issued : "collectstatic" \in Range(issued[i].argv)
    /\ \E i \in DOMAIN issued : "cp" \in Range(issued[i].argv)

\* the parameters hold an uninstall flag and --start
HasBoth ==
    \E i, j \in DOMAIN cli.argv :
        i > 1 /\ j > 1 /\ cli.argv[i] \in UNINSTALL /\ cli.argv[j] = START

\* C10: for every command line whose parameters hold an uninstall flag and
\* --start, in either order and with whatever else, CommandlineConfig raises
\* an InstallationException: the run is over before the configuration is
\* read, no step is entered and no command is issued.
C10_ContradictionRejected ==
    (flavor # "rest" /\ HasBoth /\ pc # "cmdline") =>
        /\ pc = "done"
        /\ run.exc.type = "InstallationException"
        /\ run.exc.component = "COMMANDLINE CONFIG"
        /\ config = NewConfig
        /\ trace = << >>
        /\ issued = << >>

C10_Witness ==
    /\ flavor # "rest"
    /\ HasBoth
    /\ pc = "done"
    /\ cli.given = "file"
    /\ DBTEST \in Range(cli.argv)
    /\ run.exc.component = "COMMANDLINE CONFIG"
    /\ run.exc.message.kind = "contradicting"
    /\ trace = << >>

\* the flags the usage text of _inscommon.CommandlineConfig documents
Documented == {DBTEST, START, UPDATE} \cup UNINSTALL

\* the run was ended by CommandlineConfig refusing a parameter
NotRecognized ==
    /\ pc = "done"
    /\ run.exc.type = "InstallationException"
    /\ run.exc.component = "COMMANDLINE CONFIG"
    /\ run.exc.message.kind = "not recognized"

\* C11: in every entry point that reads the command line, a parameter
\* after the config-file argument that is none of the four documented
\* flags ends the run with the usage error before any step, and a command
\* line whose parameters are all documented flags is never refused as not
\* recognized.
C11_DocumentedFlagsAccepted ==
    (flavor # "rest" /\ pc # "cmdline" /\ Len(cli.argv) >= 1) =>
        LET params == Tail(cli.argv)
        IN  IF \E i \in DOMAIN params : params[i] \notin Documented
            THEN NotRecognized /\ trace = << >> /\ issued = << >>
            ELSE ~NotRecognized

\* C12: in every flavor, a run that an InstallationException ends is ended
\* by the handler of the entry point: the exception is caught and its
\* message is what standard error gets.
C12_InstallationExceptionCaught ==
    (pc = "done" /\ run.exc.type = "InstallationException") =>
        run.outcome = "caught" /\ run.stderr = "message"

-----------------------------------------------------------------------------
(* get_path_service_log called more than once on one Config                *)

\* how many times get_path_service_log is called on one Config
MaxGets == 3

\* what the service's own .ini can be: not there, without LOG/logfile, with
\* a log file in a directory, with a bare log file name, with a log file
\* whose directory is written as a reference
IniStates ==
    {Nothing,
     RegularFile(<<Option("DB", "pool", "5")>>),
     RegularFile(<<Option("LOG", "logfile", "/var/log/foo/foo.log")>>),
     RegularFile(<<Option("LOG", "logfile", "service.log")>>),
     RegularFile(<<Option("LOG", "logfile", "${PATH:service-venv}/foo.log")>>)}

\* a Config as its constructor leaves it, with the given options
Built(f, T) ==
    [NewConfig EXCEPT !.phase = "built", !.was_read = TRUE,
                      !.store = ReadDoc(f, NoOptions, Doc(T))]

\* the documents of these Configs: the log directory configured or not
LogConfigs ==
    {ServComplete, ServComplete \cup {<<SECTION_PATH, "service-log", "/var/log/custom">>}}

InitServiceLog ==
    /\ flavor \in {"serv", "webapp"}
    /\ docs = [credentials |-> NoFile, common |-> NoFile, config |-> NoFile]
    /\ \E T \in LogConfigs : config = Built(flavor, T)
    /\ \E ini \in IniStates :
         fs = WriteFile([q \in {} |-> Nothing], OriginIni(flavor, "foo"), ini)
    /\ manager = NewManager(<< <<"..">> >>, VenvPath)
    /\ mod_last = NoModuleCall
    /\ mod_calls = 0
    /\ IdleExec
    /\ IdleRun
    /\ IdleCalls

\* one call of get_path_service_log: what it returns or raises is recorded,
\* what it stored stays in the Config
GetServiceLog ==
    /\ Len(log_returned) < MaxGets
    /\ LET r == get_path_service_log(flavor, config.store, fs)
       IN  /\ log_returned' = Append(log_returned, [exc |-> r.exc, val |-> r.val])
           /\ config' = [config EXCEPT !.store = r.store]
    /\ UNCHANGED <<flavor, docs, execVars, modVars, runVars, unit_last, got>>

\* between two calls the service's own .ini is rewritten or removed
IniChanges ==
    /\ \E ini \in IniStates :
         /\ ini # Lookup(fs, OriginIni(flavor, "foo"))
         /\ fs' = WriteFile(fs, OriginIni(flavor, "foo"), ini)
    /\ UNCHANGED <<cfgVars, execVars, manager, mod_last, mod_calls, runVars, callVars>>

NextServiceLog ==
    \/ GetServiceLog
    \/ IniChanges

SpecServiceLog == InitServiceLog /\ [][NextServiceLog]_vars

\* C13: once a call of get_path_service_log has returned a value, every
\* later call on the same Config returns that value, whatever became of the
\* service's own .ini in between.
C13_ServiceLogStable ==
    \A i, j \in DOMAIN log_returned :
        (i < j /\ log_returned[i].exc = "none") => log_returned[j] = log_returned[i]

\* C14: in every flavor's Config the option names are kept as written:
\* after the documents are read, every option of every document read is
\* stored, and listed by options(), under the name the document gives it,
\* so that two names differing only in letter case are two entries.
C14_OptionNamesPreserved ==
    config.phase = "built" =>
        \A d \in Range(DocList(flavor)) :
            docs[d].exists =>
                \A k \in DOMAIN docs[d].opts :
                    /\ k \in DOMAIN config.store
                    /\ k[2] \in Range(options(config.store, k[1]))

-----------------------------------------------------------------------------
(* SystemdServiceCreator.create on any template                            *)

\* the lines a unit template can hold, in the order of the file
TemplateUniverse ==
    <<Option("Unit", "Description", "from template"),
      Option("Unit", "After", "network.target"),
      Option("Service", "ExecStart", "from template"),
      Option("Service", "WorkingDirectory", "from template"),
      Option("Service", "Restart", "always")>>

\* the lines of seq at the positions of S, in order
RECURSIVE Pick(_, _, _)
Pick(seq, S, i) ==
    IF i > Len(seq) THEN << >>
    ELSE (IF i \in S THEN <<seq[i]>> ELSE << >>) \o Pick(seq, S, i + 1)

\* the template files: any selection of the lines, or no file
Templates ==
    {Nothing} \cup
    {RegularFile(Pick(TemplateUniverse, S, 1)) : S \in SUBSET (DOMAIN TemplateUniverse)}

UnitTemplate == TemplateFile("serv")

UnitTarget == SystemdTarget("foo")

\* the description argument: left out (None) or the service's description
Descriptions == {"", "BHS Service"}

\* exec_start and working_directory as the callers compute them, the second
\* the directory name of the deployed file, which is empty for a bare file
\* name; and create called with an empty exec_start
StartArguments ==
    {<<"/tmp/app.py", "/tmp">>, <<"app.py", "">>, <<"", "/tmp">>, <<"", "">>}

\* Python's truth value of a string argument
Truthy(v) == v # ""

InitUnit ==
    /\ flavor = "serv"
    /\ docs = [credentials |-> NoFile, common |-> NoFile, config |-> NoFile]
    /\ config = NewConfig
    /\ \E t \in Templates,
          old \in {Nothing, RegularFile(<<Option("Unit", "Description", "stale")>>)} :
         fs = WriteFile(WriteFile([q \in {} |-> Nothing], UnitTemplate, t), UnitTarget, old)
    /\ manager = NewManager(<< <<"..">> >>, VenvPath)
    /\ mod_last = NoModuleCall
    /\ mod_calls = 0
    /\ IdleExec
    /\ IdleRun
    /\ IdleCalls

\* a SystemdServiceCreator is constructed on the template and create is
\* called on it once
CreateUnit ==
    /\ ~unit_last.called
    /\ \E d \in Descriptions, a \in StartArguments :
         LET template == ReadTemplate(fs, UnitTemplate)
             r == systemd_create(Running(<< >>), UnitTemplate, UnitTarget, a[1], a[2], d,
                                 <<Truthy(d), Truthy(a[1]), Truthy(a[2])>>)
         IN  /\ fs' = r.files
             /\ unit_last' = [called |-> TRUE, service_descripton |-> d,
                              exec_start |-> a[1], working_directory |-> a[2],
                              template |-> template, before |-> Lookup(fs, UnitTarget),
                              exc |-> r.raised.type]
    /\ UNCHANGED <<cfgVars, execVars, manager, mod_last, mod_calls, runVars, log_returned, got>>

NextUnit == CreateUnit

SpecUnit == InitUnit /\ [][NextUnit]_vars

HasLine(lines, s, o) == \E i \in DOMAIN lines : lines[i].section = s /\ lines[i].option = o

\* the three fields of create with what the last call gave for them
Fields ==
    {<<"Unit", "Description", unit_last.service_descripton>>,
     <<"Service", "ExecStart", unit_last.exec_start>>,
     <<"Service", "WorkingDirectory", unit_last.working_directory>>}

\* the descriptor the last call wrote
Written == Lookup(fs, UnitTarget).lines

\* C15: a descriptor written by create holds each of Description, ExecStart
\* and WorkingDirectory with the argument's value when the argument was
\* non-empty, and as the template has it (there with the same value, or not
\* there) when the argument was empty or left out; every other line of the
\* template is in the descriptor, and the descriptor holds nothing else.
C15_CreateOverwritesSupplied ==
    (unit_last.called /\ unit_last.exc = "none") =>
        /\ isfile(fs, UnitTarget)
        /\ \A x \in Fields :
              IF Truthy(x[3])
              THEN HasLine(Written, x[1], x[2]) /\ IniValue(Written, x[1], x[2]) = x[3]
              ELSE /\ HasLine(Written, x[1], x[2]) <=> HasLine(unit_last.template, x[1], x[2])
                   /\ IniValue(Written, x[1], x[2]) = IniValue(unit_last.template, x[1], x[2])
        /\ \A line \in Range(unit_last.template) :
              (\A x \in Fields : <<line.section, line.option>> # <<x[1], x[2]>>) =>
                  line \in Range(Written)
        /\ \A line \in Range(Written) :
              \/ line \in Range(unit_last.template)
              \/ \E x \in Fields : Truthy(x[3]) /\ line = Option(x[1], x[2], x[3])

C15_Witness ==
    /\ unit_last.called
    /\ unit_last.exc = "none"
    /\ unit_last.service_descripton = ""
    /\ unit_last.exec_start = "app.py"
    /\ unit_last.working_directory = ""
    /\ unit_last.template = TemplateUniverse
    /\ Written = [TemplateUniverse EXCEPT ![3] = Option("Service", "ExecStart", "app.py")]

\* C16: a call of create with a start command either writes a descriptor
\* whose Service section has an ExecStart and a WorkingDirectory option, or
\* raises and leaves the target as it was.
C16_DescriptorHasStartAndDirectory ==
    (unit_last.called /\ Truthy(unit_last.exec_start)) =>
        IF unit_last.exc = "none"
        THEN /\ HasLine(Written, "Service", "ExecStart")
             /\ HasLine(Written, "Service", "WorkingDirectory")
        ELSE Lookup(fs, UnitTarget) = unit_last.before

\* the descriptor at the unit-file target of the run
Descriptor == Lookup(fs, SystemdTarget(ServiceName))

\* C17: in the web-application flavors every descriptor at the unit-file
\* target that has a start command has a stop command too.
C17_StopCommandSet ==
    (flavor \in {"webapp", "rest"} /\ pc \in {"steps", "done"}
        /\ Descriptor.kind = "file" /\ HasLine(Descriptor.lines, "Service", "ExecStart")) =>
        HasLine(Descriptor.lines, "Service", "ExecStop")

InstalledFrom == Lookup(fs, find_module(manager, fs, mod_last.module, FALSE).ret)
InstalledTo == Lookup(fs, mod_last.target)

\* C19: when install_main_module returns normally, the target is a file
\* whose first line is the interpreter directive of the target virtual
\* environment, whose lines 2..n are lines 2..n of the source in the same
\* order, and which is marked executable.
C19_MainModuleInstalled ==
    (mod_last.op = "install_main_module" /\ mod_last.raised.type = "none") =>
        /\ InstalledTo.kind = "file"
        /\ mod_last.ret = mod_last.target
        /\ Len(InstalledTo.lines) = Len(InstalledFrom.lines)
        /\ Head(InstalledTo.lines) = NewShebang(manager.venv_path)
        /\ Tail(InstalledTo.lines) = Tail(InstalledFrom.lines)
        /\ InstalledTo.executable

\* C20: a Config getter called without a fallback for a key whose section or
\* option is absent fails with an InstallationException tagged CONFIG, never
\* with another exception type; a getter given a fallback returns the fallback.
C20_AbsentKeyIsConfigurationError ==
    /\ (pc = "done" /\ "kind" \in DOMAIN run.exc.message /\ run.exc.message.kind = "get"
           /\ ~has_option(flavor, config.store, run.exc.message.named[1], run.exc.message.named[2]))
          => (run.exc.type = "InstallationException" /\ run.exc.component = "CONFIG")
    /\ (config.phase = "built" /\ ~has_option(flavor, config.store, SECTION_DATABASE, "db"))
          => get_database_db(flavor, config.store, FALSE) = [exc |-> "none", val |-> "bhs"]

-----------------------------------------------------------------------------
(* ConfigParser.get called more than once on one loaded Config             *)

\* the options of the documents of these Configs and the values they hold:
\* plain, empty, a reference, an escaped "$", a "$" that starts nothing
GetKeys == {<<SECTION_PATH, OPTION_VENV>>, <<SECTION_DATABASE, "password">>}

GetValues == {"/tmp/v", "", RefVenv, EscapedDollar, LoneDollar}

\* the options asked for: the stored ones and one that no document holds
AskedKeys == GetKeys \cup {<<SECTION_DATABASE, "user">>}

InitGet ==
    /\ flavor \in Flavors
    /\ docs = [credentials |-> NoFile, common |-> NoFile, config |-> NoFile]
    /\ \E vals \in [GetKeys -> GetValues] :
         config = Built(flavor, {<<k[1], k[2], vals[k]>> : k \in GetKeys})
    /\ IdleExec
    /\ IdleModule
    /\ IdleRun
    /\ IdleCalls

\* one call of get(section, option) on the Config, nothing written before
\* or after it: what it returns or raises is recorded
GetOption ==
    /\ Len(got) < MaxGets
    /\ \E k \in AskedKeys :
         LET r == Get(flavor, config.store, k[1], k[2])
         IN  got' = Append(got, [section |-> k[1], option |-> k[2],
                                 exc |-> r.exc, val |-> r.val])
    /\ UNCHANGED <<cfgVars, execVars, modVars, runVars, log_returned, unit_last>>

NextGet == GetOption

SpecGet == InitGet /\ [][NextGet]_vars

\* the value the Config stores for the option of a recorded call
StoredFor(c) == config.store[<<c.section, optionxform(flavor, c.option)>>]

\* C21: two consecutive get calls of one option, with no write in between,
\* return the same value, and a stored value that contains no reference is
\* returned as it is stored.
C21_GetIdempotent ==
    \A i \in DOMAIN got :
        /\ (i > 1 /\ got[i - 1].section = got[i].section
                  /\ got[i - 1].option = got[i].option) => got[i] = got[i - 1]
        /\ (has_option(flavor, config.store, got[i].section, got[i].option)
              /\ ~HasReference(StoredFor(got[i])))
             => (got[i].exc = "none" /\ got[i].val = StoredFor(got[i]))

-----------------------------------------------------------------------------
(* The file name of a module                                               *)

\* module names beyond those of the configurations: an extension in capital
\* letters, a dotted name, a name that is only an extension, a backup copy
OtherNames == {<<"app", ".PY">>, <<"pkg", ".sub">>, <<".py">>, <<"app", ".py", ".bak">>, <<"helper">>}

\* the file name the rule gives a name
Inferred(n) == IF n[Len(n)] \in {".py", ".wsgi"} THEN n ELSE Append(n, ".py")

\* the copies install_module has made so far: the cp commands into the
\* virtual environment's site-packages
ModuleCopies ==
    {i \in DOMAIN issued :
        /\ "cp" \in Range(issued[i].argv)
        /\ issued[i].on[2].dir = manager.modules_target_path}

\* C22: the file name of a module is the name itself when it ends with .py
\* or .wsgi and the name with .py appended otherwise; the rule applied to its
\* own result changes nothing; install_module looks for the module under
\* that file name and names its copy in site-packages by it.
C22_CandidateFilename ==
    /\ \A n \in ModuleNames \cup OtherNames :
          /\ module_file(n) = Inferred(n)
          /\ module_file(module_file(n)) = module_file(n)
    /\ \A i \in ModuleCopies :
          \E name \in Range(get_modules(flavor, config.store)) :
              /\ issued[i].on[1].file = Inferred(Tokens(name))
              /\ issued[i].on[2].file = Inferred(Tokens(name))

C22_Witness ==
    /\ pc = "done"
    /\ run.outcome = "completed"
    /\ Cardinality(ModuleCopies) >= 2

-----------------------------------------------------------------------------
(* setup_on_startup called on one startup script, once and again           *)

\* how many lines the startup script has before the first call, and how many
\* times setup_on_startup is called
MaxScript == 3
MaxSetups == 2

\* the apachectl the configurator was constructed with, and its command
ConfiguredApachectl == join(Dir("/etc/bhs/foo"), <<"apachectl">>)

ConfiguredCommand == StartupCommand(ConfiguredApachectl)

\* the lines a startup script is made of: the interpreter line, exit 0 plain
\* and indented, the command plain, indented and commented out
ScriptLines ==
    {<<"#!", "/bin/sh">>, ExitLine, <<" ", "exit 0">>,
     ConfiguredCommand, <<" ">> \o ConfiguredCommand \o <<" ">>,
     <<"#">> \o ConfiguredCommand}

Scripts == UNION {[1..n -> ScriptLines] : n \in 0..MaxScript}

InitStartup ==
    /\ flavor = "webapp"
    /\ docs = [credentials |-> NoFile, common |-> NoFile, config |-> NoFile]
    /\ config = Built(flavor, WebAppComplete)
    /\ \E entry \in {Nothing} \cup {RegularFile(c) : c \in Scripts} :
         fs = WriteFile([q \in {} |-> Nothing], StartupScript, entry)
    /\ manager = NewManager(<< <<"..">> >>, VenvPath)
    /\ mod_last = NoModuleCall
    /\ mod_calls = 0
    /\ IdleExec
    /\ IdleRun
    /\ IdleCalls

\* one call of setup_on_startup: the script before it and after it
SetupStartup ==
    /\ Len(got) < MaxSetups
    /\ LET r == setup_on_startup(Running(<< >>), ConfiguredApachectl)
       IN  /\ fs' = r.files
           /\ got' = Append(got, [before |-> Lookup(fs, StartupScript).lines,
                                  after |-> Lookup(r.files, StartupScript).lines,
                                  exc |-> r.raised.type])
    /\ UNCHANGED <<cfgVars, execVars, manager, mod_last, mod_calls, runVars,
                   log_returned, unit_last>>

NextStartup == SetupStartup

SpecStartup == InitStartup /\ [][NextStartup]_vars

\* the lines of a script that are the command once stripped
LinesOfCommand(content) ==
    {i \in DOMAIN content : strip(content[i]) = ConfiguredCommand}

\* C23: a script that holds a line equal, once stripped, to the Apache start
\* command is left as it is, and a second call of setup_on_startup leaves
\* the script as the first call left it: the command is not put in twice.
C23_SetupOnStartupIdempotent ==
    \A i \in DOMAIN got :
        got[i].exc = "none" =>
            /\ LinesOfCommand(got[i].before) # {} => got[i].after = got[i].before
            /\ i > 1 => got[i].after = got[i - 1].after
            /\ LinesOfCommand(got[i].before) = {} => Cardinality(LinesOfCommand(got[i].after)) = 1

C23_Witness ==
    /\ Len(got) = 2
    /\ got[1].exc = "none"
    /\ got[1].after # got[1].before
    /\ got[2].after = got[1].after

\* the lines of a script that are exit 0 once stripped
LinesOfExit(content) == {i \in DOMAIN content : strip(content[i]) = ExitLine}

\* the last of a non-empty set of line numbers
LastOf(S) == CHOOSE i \in S : \A j \in S : j <= i

\* the calls of setup_on_startup that put the command in
Inserting == {i \in DOMAIN got : got[i].exc = "none" /\ got[i].after # got[i].before}

\* C24: when setup_on_startup puts the command in, the script is its
\* original lines, all of them and in their order, with the command (an empty
\* line before it and one after it) put in between two of them: before the
\* last line that is exit 0 when there is one, wherever it stands, with no
\* original line between the command and that exit 0, and at the end of the
\* script otherwise; the command never comes after the last exit 0.
C24_CommandBeforeLastExit ==
    \A c \in Inserting :
        LET before == got[c].before
            after == got[c].after
            k == IF LinesOfExit(before) = {} THEN Len(before)
                 ELSE LastOf(LinesOfExit(before)) - 1
        IN  /\ Len(after) = Len(before) + 3
            /\ SubSeq(after, 1, k) = SubSeq(before, 1, k)
            /\ SubSeq(after, k + 1, k + 3) = << << >>, ConfiguredCommand, << >> >>
            /\ SubSeq(after, k + 4, Len(after)) = SubSeq(before, k + 1, Len(before))
            /\ LinesOfExit(before) # {} =>
                  /\ LastOf(LinesOfExit(after)) = k + 4
                  /\ \A i \in LinesOfCommand(after) : i < LastOf(LinesOfExit(after))

C24_Witness ==
    \E c \in Inserting :
        /\ Cardinality(LinesOfExit(got[c].before)) = 2
        /\ 1 \in LinesOfExit(got[c].before)
        /\ LinesOfCommand(got[c].after) = {LastOf(LinesOfExit(got[c].before)) + 1}

-----------------------------------------------------------------------------
(* The uninstall run of the generic service                                *)

\* inserv.py called with the uninstall flag, on any of the machines and
\* documents of the model
InitUninstall ==
    /\ flavor = "serv"
    /\ \E cr \in RunCredentials, cm \in RunCommons(flavor), cf \in RunConfigs(flavor) :
         docs = [credentials |-> cr, common |-> cm, config |-> cf]
    /\ fs \in RunFiles(flavor)
    /\ cli \in {c \in PlainCommandLines :
                  Len(c.argv) = 2 /\ c.argv[2] \in UNINSTALL}
    /\ StartOfMain

\* what such a run goes through
NextUninstall ==
    \/ CommandlineInit
    \/ InitLogging
    \/ RunServConfig
    \/ BuildComponents
    \/ Stop
    \/ Disable
    \/ RemoveAll
    \/ SystemdRemove
    \/ IniRemove

\* the interpreter goes on to the next statement as long as there is one
SpecUninstall == InitUninstall /\ [][NextUninstall]_vars /\ WF_vars(NextUninstall)

\* the run is the uninstall of the generic service
ServUninstall == flavor = "serv" /\ ~cmdline.install

\* C25: the uninstall run of the generic service, once at its first step,
\* goes through all five teardown steps (stop, disable, remove the deployed
\* tree, remove the unit file, remove the config directory) and ends
\* normally, whatever the commands exit with: none of its commands is
\* must-succeed, and none of its steps ends the run.
C25_UninstallReachesAllSteps ==
    /\ [](ServUninstall =>
            /\ IsPrefix(trace, Teardown)
            /\ \A i \in DOMAIN issued : ~issued[i].must_succeed
            /\ ~Aborted)
    /\ ((ServUninstall /\ pc = "steps")
            ~> (pc = "done" /\ run = Completed /\ trace = Teardown /\ Len(issued) = 5))

C25_Witness ==
    /\ ServUninstall
    /\ pc = "done"
    /\ trace = Teardown
    /\ Len(issued) = 5
    /\ \A i \in DOMAIN issued : issued[i].returncode # 0

-----------------------------------------------------------------------------
(* inserv.py run to install, then run again to uninstall                   *)

\* inserv.py called to install, on any of the machines and documents
InitInstall ==
    /\ flavor = "serv"
    /\ \E cr \in RunCredentials, cm \in RunCommons(flavor), cf \in RunConfigs(flavor) :
         docs = [credentials |-> cr, common |-> cm, config |-> cf]
    /\ fs \in RunFiles(flavor)
    /\ cli \in {c \in PlainCommandLines : c.argv \in {<<"foo">>, <<"foo", START>>}}
    /\ StartOfMain

\* after an install run that went through, inserv.py is called again with
\* the uninstall flag, on the machine as the install left it: what the
\* install did is kept for the comparison
SecondRun ==
    /\ pc = "done"
    /\ run = Completed
    /\ cmdline.install
    /\ got = << >>
    /\ got' = <<[files |-> fs, issued |-> issued, manager |-> manager]>>
    /\ \E flag \in UNINSTALL : cli' = [cli EXCEPT !.argv = <<"foo", flag>>]
    /\ config' = NewConfig
    /\ manager' = NewManager(<< <<"..">> >>, VenvPath)
    /\ cmdline' = NewCommandline
    /\ pc' = "cmdline"
    /\ ip' = 0
    /\ run' = NotEnded
    /\ trace' = << >>
    /\ issued' = << >>
    /\ UNCHANGED <<flavor, docs, execVars, fs, mod_last, mod_calls, log_returned, unit_last>>

NextInstallUninstall ==
    \/ CommandlineInit
    \/ InitLogging
    \/ RunServConfig
    \/ BuildComponents
    \/ Stop
    \/ Disable
    \/ VenvCreate
    \/ Externals
    \/ Modules
    \/ MainModule
    \/ ServiceLog
    \/ CopyIni
    \/ EnvIniCreate
    \/ SystemdCreate
    \/ ServiceInstall
    \/ Start
    \/ SecondRun
    \/ RemoveAll
    \/ SystemdRemove
    \/ IniRemove

SpecInstallUninstall == InitInstall /\ [][NextInstallUninstall]_vars

\* what the install run deployed for the application: the virtual
\* environment, the copies of the modules in its site-packages, the
\* rewritten main module
Deployed ==
    LET inst == got[1]
    IN  {inst.issued[i].on[1] :
            i \in {j \in DOMAIN inst.issued : "venv" \in Range(inst.issued[j].argv)}}
        \cup {inst.issued[i].on[2] :
            i \in {j \in DOMAIN inst.issued :
                     /\ "cp" \in Range(inst.issued[j].argv)
                     /\ inst.issued[j].on[2].dir = inst.manager.modules_target_path}}
        \cup {inst.manager.main_module_target_path}

\* the directory the uninstall run removes with all its content
Removed ==
    {issued[i].on[1] : i \in {j \in DOMAIN issued : "-rd" \in Range(issued[j].argv)
                                                    /\ j = 3}}

\* the uninstall run after the install run went through, all its commands
\* having succeeded
UninstalledAfterInstall ==
    /\ got # << >>
    /\ pc = "done"
    /\ run = Completed
    /\ trace = Teardown
    /\ \A i \in DOMAIN issued : issued[i].returncode = 0

\* C26: the virtual environment, the modules copied into its site-packages
\* and the rewritten main module all were put under the parent directory of
\* the venv path, which is the directory remove_all removes: after an install
\* that went through and an uninstall that went through, none of them is
\* left. No command of the install creates that directory itself.
C26_DeployedUnderRemovedDirectory ==
    /\ got # << >> =>
          LET inst == got[1]
              parent == dirname(inst.manager.venv_path)
          IN  /\ inst.manager.base_dir = parent
              /\ \A p \in Deployed : exists(inst.files, p) /\ Under(p, parent)
              /\ \A i \in DOMAIN inst.issued :
                    inst.issued[i].on # << >> =>
                        inst.issued[i].on[Len(inst.issued[i].on)] # DirPath(parent)
    /\ UninstalledAfterInstall =>
          /\ Removed = {DirPath(dirname(got[1].manager.venv_path))}
          /\ \A p \in Deployed : ~exists(fs, p)

C26_Witness ==
    /\ UninstalledAfterInstall
    /\ Cardinality(Deployed) >= 4
    /\ \E p \in DOMAIN fs : exists(fs, p) /\ exists(got[1].files, p)

-----------------------------------------------------------------------------
(* The error field of a SubprocessAction                                   *)

\* C27: the error field is set by every call of execute whose command
\* fails, to the detail of that command, and is left as it is by every call
\* whose command succeeds: after a failure that raised nothing, followed by
\* any number of successful calls, it still holds the detail of that failure.
C27_ErrorSticky ==
    [][exec_calls' = exec_calls + 1 =>
          IF exec_last'.res.returncode = 0
          THEN subproc'.error = subproc.error
          ELSE subproc'.error = ErrorDetail(exec_last'.command, exec_last'.res)]_vars

C27_Witness ==
    /\ exec_calls = MaxCalls
    /\ exec_last.made
    /\ exec_last.res.returncode = 0
    /\ exec_last.raised.type = "none"
    /\ subproc.error # NoError
    /\ subproc.error.returncode = 2

-----------------------------------------------------------------------------
(* get_path_origin_django_manager called more than once on one Config      *)

\* the documents of these Configs: one lookup path or two, the Django
\* manager configured or not
DjangoConfigs ==
    {WebAppMinimal \cup M \cup D :
        M \in {{}, {<<SECTION_PATH, "module-path", "../, ../lib">>}},
        D \in {{}, {<<SECTION_PATH, "django-manager", "../manage.py">>}}}

\* where a manage.py may be, and what may be there
ManagePyPlaces == {join(Dir("../"), <<"manage", ".py">>), join(Dir("../lib"), <<"manage", ".py">>)}

ManagePyEntries == {Nothing, Directory, RegularFile(<<CodeLine>>)}

InitDjango ==
    /\ flavor = "webapp"
    /\ docs = [credentials |-> NoFile, common |-> NoFile, config |-> NoFile]
    /\ \E T \in DjangoConfigs : config = Built(flavor, T)
    /\ fs \in [ManagePyPlaces -> ManagePyEntries]
    /\ manager = NewManager(<< <<"..">> >>, VenvPath)
    /\ mod_last = NoModuleCall
    /\ mod_calls = 0
    /\ IdleExec
    /\ IdleRun
    /\ IdleCalls

\* one call of get_path_origin_django_manager: what it was called on, what
\* it returned or raised; what it stored stays in the Config
GetDjangoManager ==
    /\ Len(got) < MaxGets
    /\ LET r == get_path_origin_django_manager(flavor, config.store, fs)
       IN  /\ got' = Append(got,
                        [configured |-> has_option(flavor, config.store, SECTION_PATH,
                                                   "django-manager"),
                         pths |-> get_modules_lookup_paths(flavor, config.store),
                         files |-> fs,
                         exc |-> r.raised.type, component |-> r.raised.component,
                         val |-> r.val])
           /\ config' = [config EXCEPT !.store = r.store]
    /\ UNCHANGED <<flavor, docs, execVars, modVars, runVars, log_returned, unit_last>>

\* between two calls a manage.py appears or goes
ManagePyChanges ==
    /\ got # << >>
    /\ \E p \in ManagePyPlaces, e \in ManagePyEntries :
         /\ e # fs[p]
         /\ fs' = [fs EXCEPT ![p] = e]
    /\ UNCHANGED <<cfgVars, execVars, manager, mod_last, mod_calls, runVars, callVars>>

NextDjango ==
    \/ GetDjangoManager
    \/ ManagePyChanges

SpecDjango == InitDjango /\ [][NextDjango]_vars

\* the lookup paths of a recorded call that held a manage.py
Holding(c) ==
    {k \in DOMAIN c.pths : Lookup(c.files, join(c.pths[k], <<"manage", ".py">>)).kind = "file"}

\* C28: called on a Config without PATH/django-manager, the getter returns
\* the manage.py of the last lookup path that holds one as a regular file,
\* however many hold one, and raises an InstallationException of the
\* configuration when none does; once it has returned a path, every later
\* call returns that path, whatever became of the files.
C28_DjangoManagerLastMatch ==
    /\ \A i \in DOMAIN got :
          ~got[i].configured =>
              IF Holding(got[i]) = {}
              THEN got[i].exc = "InstallationException" /\ got[i].component = "CONFIG"
              ELSE /\ got[i].exc = "none"
                   /\ got[i].val = ManagePy(got[i].pths[LastOf(Holding(got[i]))])
    /\ \A i, j \in DOMAIN got :
          (i < j /\ got[i].exc = "none") =>
              (got[j].exc = "none" /\ got[j].val = got[i].val)

C28_Witness ==
    /\ Len(got) >= 2
    /\ ~got[1].configured
    /\ Cardinality(Holding(got[1])) = 2
    /\ got[1].val = "../lib/manage.py"
    /\ Holding(got[2]) = {1}
    /\ got[2].val = "../lib/manage.py"

-----------------------------------------------------------------------------
(* The web application: uninstall, and Apache after the install            *)

\* the run is the uninstall of the web application
WebAppUninstall == flavor = "webapp" /\ ~cmdline.install

\* the log file that init_logging opens
RunLog == join(LogFileDir(flavor), <<"run", ".log">>)

ApacheStopped ==
    /\ issued # << >>
    /\ "stop" \in Range(issued[1].argv)
    /\ issued[1].on = <<Apachectl>>
    /\ issued[1].returncode = 0

=============================================================================
